---- MODULE Spec2Model ----
(***************************************************************************)
(* QikPoll: the vote transaction, the rate limiters, poll creation, the    *)
(* public index and the live fanout (Redis pub/sub feeding the registries  *)
(* of connected websocket peers), over a Redis keyspace with key expiry    *)
(* and a clock.                                                            *)
(*                                                                         *)
(* Time is counted in ticks, TicksPerSecond ticks to the second (the code  *)
(* reads milliseconds and divides by 1000).  A key whose expiry instant    *)
(* has been reached is removed by the clock step, so "k \in DOMAIN m"      *)
(* reads as Redis' EXISTS.  Every await of a handler is a separate step:   *)
(* the clock and the other handlers may act between two steps.             *)
(***************************************************************************)
EXTENDS Integers, Sequences, FiniteSets, Bags, TLC

VARIABLES
  now,      \* the clock, in ticks
  env,      \* process.env.POLL_TTL_SECONDS (0: not configured)
  redis,    \* the keyspace, one field per key family
  votes,    \* bag of submitVote calls between their GET and their EVAL
  creates,  \* bag of createPoll calls in progress
  lists,    \* bag of listPublicPolls calls in progress
  views,    \* bag of getPollForViewer calls between their GET and their EXISTS
  resp,     \* the response of the call that completes in this step, if any
  client,           \* redisClientPromise: "null", "resolved" or "rejected"
  subscription,     \* subscriptionStartPromise, its start sequences, the subscribers
  peersByPollId,    \* registry: poll id -> set of peers
  publicListPeers,  \* registry: set of peers of the public feed
  peers             \* the websocket connections: handlers' positions and inboxes

fanout == <<subscription, peersByPollId, publicListPeers, peers>>

vars == <<now, env, redis, votes, creates, lists, views, resp, client, fanout>>

----------------------------------------------------------------------------
\* Bounds of the model.
NumPollIds == 1
NumIps == 2
NumAgents == 2
NumOptions == 2
TicksPerSecond == 2
ShortTtlSeconds == 2
MaxTime == 4
MaxInFlight == 2
MaxAttempts == 2
MaxCreates == 1
ListCreates == 2
BurstAttempts == 22
CreateBurst == 10
NumPeers == 2
MaxStarts == 2
MaxRawOptions == 3
MaxTally == 3
NumStreams == 2
NumListed == 2
OrderCreates == 3
OrderTime == 1

\* Constants of the program.
DEFAULT_POLL_TTL_SECONDS == 604800
CREATE_POLL_RATE_LIMIT_WINDOW_SECONDS == 60
CREATE_POLL_RATE_LIMIT_MAX == 8
VOTE_ATTEMPT_WINDOW_SECONDS == 60
VOTE_ATTEMPT_MAX == 20
ID_ATTEMPTS == 4

PollIds == 1..NumPollIds
Ips == 1..NumIps
Agents == 1..NumAgents
Visibilities == {"public", "private"}

\* The limit argument of listPublicPolls, a number: finite (halves / 2, so
\* that fractions occur) or not (NaN, Infinity).
Whole(n) == [finite |-> TRUE, halves |-> 2 * n]
NotFinite == [finite |-> FALSE, halves |-> 0]
Limits == {Whole(n) : n \in 1..NumPollIds}

NoExpiry == -1
NoPoll == [id |-> 0, visibility |-> "none", totalVotes |-> 0, createdAt |-> 0,
           expiresAt |-> 0, options |-> <<>>]

----------------------------------------------------------------------------
\* Redis commands on one key family m (a function from the keys that exist
\* to [val, exp]) at instant t.

RedisSetEx(m, k, v, seconds, t) ==
  [x \in DOMAIN m \cup {k} |->
     IF x = k THEN [val |-> v, exp |-> t + seconds * TicksPerSecond] ELSE m[x]]

RedisSetExNx(m, k, v, seconds, t) ==
  IF k \in DOMAIN m THEN m ELSE RedisSetEx(m, k, v, seconds, t)

RedisIncr(m, k) ==
  [x \in DOMAIN m \cup {k} |->
     IF x = k
       THEN IF k \in DOMAIN m THEN [m[k] EXCEPT !.val = @ + 1]
                              ELSE [val |-> 1, exp |-> NoExpiry]
       ELSE m[x]]

RedisExpire(m, k, seconds, t) ==
  IF k \in DOMAIN m THEN [m EXCEPT ![k].exp = t + seconds * TicksPerSecond] ELSE m

RedisPurge(m, t) ==
  [k \in {x \in DOMAIN m : m[x].exp = NoExpiry \/ m[x].exp > t} |-> m[k]]

----------------------------------------------------------------------------
\* Keys and identity.

hash(value) == <<"sha256", value>>

keyPoll(pollId) == pollId
keyVoteByFingerprint(pollId, fingerprint) == <<pollId, fingerprint>>
keyVoteByIp(pollId, ipHash) == <<pollId, ipHash>>
keyCreateRate(ipHash) == ipHash
keyVoteRate(pollId, ipHash) == <<pollId, ipHash>>

getActor_Raw(request) ==
  [ipHash |-> hash(request.ip), fingerprintHash |-> <<"raw", request.agent>>]

getActor(request) ==
  LET ipHash == hash(request.ip)
  IN [ipHash |-> ipHash, fingerprintHash |-> hash(<<ipHash, request.agent>>)]

\* [userAgent, language, clientHints, visitorId].join('|'): the headers and
\* the visitor token as getActor joins them into the fingerprint's input.
RECURSIVE join(_)
join(parts) ==
  IF Len(parts) = 0 THEN <<>>
  ELSE IF Len(parts) = 1 THEN parts[1]
  ELSE parts[1] \o <<"|">> \o join(Tail(parts))

\* The request getActor hashes, for a caller at address ip that sends the
\* given headers and visitor token.
Request(raw) ==
  [ip |-> raw.ip,
   agent |-> join(<<raw.userAgent, raw.language, raw.clientHints, raw.visitorId>>)]

Actors == {getActor([ip |-> i, agent |-> a]) : i \in Ips, a \in Agents}

getPollTtlSeconds ==
  IF env <= 0 THEN DEFAULT_POLL_TTL_SECONDS ELSE env

getRemainingSeconds(expiresAt, nowTicks) ==
  (expiresAt - nowTicks) \div TicksPerSecond

optionId(index) == <<"o", index>>
OptionIds == {optionId(i) : i \in 1..NumOptions} \cup {optionId(0)}

newPoll(pollId, visibility, createdAt, ttlSeconds) ==
  [id |-> pollId, visibility |-> visibility, totalVotes |-> 0,
   createdAt |-> createdAt,
   expiresAt |-> createdAt + ttlSeconds * TicksPerSecond,
   options |-> [i \in 1..NumOptions |-> [id |-> optionId(i), votes |-> 0]]]

----------------------------------------------------------------------------
\* The vote transaction (the Lua script), as a function of the keyspace.

rateExceeded_AtMax(attempts, max) == attempts >= max

rateExceeded(attempts, max) == attempts > max

lockExists_FingerprintOnly(db, fpKey, ipKey) ==
  fpKey \in DOMAIN db.fpLocks

lockExists(db, fpKey, ipKey) ==
  fpKey \in DOMAIN db.fpLocks \/ ipKey \in DOMAIN db.ipLocks

findOption(poll, id) ==
  LET hit == {i \in 1..Len(poll.options) : poll.options[i].id = id}
  IN IF hit = {} THEN 0 ELSE CHOOSE i \in hit : \A j \in hit : i <= j

countVote_OptionOnly(poll, i) ==
  [poll EXCEPT !.options[i].votes = @ + 1]

countVote(poll, i) ==
  [poll EXCEPT !.options[i].votes = @ + 1, !.totalVotes = @ + 1]

armWindow_Always(m, k, attempts, seconds, t) == RedisExpire(m, k, seconds, t)

armWindow(m, k, attempts, seconds, t) ==
  IF attempts = 1 THEN RedisExpire(m, k, seconds, t) ELSE m

countAttempt_Reset(m, k, seconds, t) == RedisSetEx(m, k, 1, seconds, t)

\* INCR, and EXPIRE when the counter has just been created.
countAttempt(m, k, seconds, t) ==
  armWindow(RedisIncr(m, k), k, RedisIncr(m, k)[k].val, seconds, t)

persistVote_PollOnly(db, pollKey, fpKey, ipKey, poll, id, seconds, t) ==
  [db EXCEPT !.polls = RedisSetEx(@, pollKey, poll, seconds, t)]

persistVote_ClearCreateRate(db, pollKey, fpKey, ipKey, poll, id, seconds, t) ==
  [db EXCEPT !.polls = RedisSetEx(@, pollKey, poll, seconds, t),
             !.fpLocks = RedisSetExNx(@, fpKey, id, seconds, t),
             !.ipLocks = RedisSetExNx(@, ipKey, id, seconds, t),
             !.createRate = <<>>]

persistVote_Relock(db, pollKey, fpKey, ipKey, poll, id, seconds, t) ==
  [db EXCEPT !.polls = RedisSetEx(@, pollKey, poll, seconds, t),
             !.fpLocks = [k \in DOMAIN @ \cup {fpKey} |->
                            [val |-> IF k \in DOMAIN @ THEN @[k].val ELSE id,
                             exp |-> t + seconds * TicksPerSecond]],
             !.ipLocks = [k \in DOMAIN @ \cup {ipKey} |->
                            [val |-> IF k \in DOMAIN @ THEN @[k].val ELSE id,
                             exp |-> t + seconds * TicksPerSecond]]]

persistVote(db, pollKey, fpKey, ipKey, poll, id, seconds, t) ==
  [db EXCEPT !.polls = RedisSetEx(@, pollKey, poll, seconds, t),
             !.fpLocks = RedisSetExNx(@, fpKey, id, seconds, t),
             !.ipLocks = RedisSetExNx(@, ipKey, id, seconds, t)]

\* The script with the duplicate-vote check moved before the attempt counter.
VOTE_SCRIPT_LockFirst(db, t, pollKey, fpKey, ipKey, rateKey, id, window, max, seconds) ==
  IF pollKey \notin DOMAIN db.polls
    THEN [db |-> db, code |-> "POLL_NOT_FOUND", poll |-> NoPoll]
  ELSE IF lockExists(db, fpKey, ipKey)
    THEN [db |-> db, code |-> "ALREADY_VOTED", poll |-> NoPoll]
    ELSE
      LET db1 == [db EXCEPT !.voteRate = countAttempt(@, rateKey, window, t)]
          attempts == db1.voteRate[rateKey].val
          poll == db.polls[pollKey].val
          i == findOption(poll, id)
      IN IF rateExceeded(attempts, max)
           THEN [db |-> db1, code |-> "RATE_LIMITED", poll |-> NoPoll]
         ELSE IF i = 0
           THEN [db |-> db1, code |-> "OPTION_NOT_FOUND", poll |-> NoPoll]
         ELSE [db |-> persistVote(db1, pollKey, fpKey, ipKey, countVote(poll, i),
                                  id, seconds, t),
               code |-> "ok", poll |-> countVote(poll, i)]

VOTE_SCRIPT(db, t, pollKey, fpKey, ipKey, rateKey, id, window, max, seconds) ==
  IF pollKey \notin DOMAIN db.polls
    THEN [db |-> db, code |-> "POLL_NOT_FOUND", poll |-> NoPoll]
    ELSE
      LET db1 == [db EXCEPT !.voteRate = countAttempt(@, rateKey, window, t)]
          attempts == db1.voteRate[rateKey].val
          poll == db.polls[pollKey].val
          i == findOption(poll, id)
      IN IF rateExceeded(attempts, max)
           THEN [db |-> db1, code |-> "RATE_LIMITED", poll |-> NoPoll]
         ELSE IF lockExists(db1, fpKey, ipKey)
           THEN [db |-> db1, code |-> "ALREADY_VOTED", poll |-> NoPoll]
         ELSE IF i = 0
           THEN [db |-> db1, code |-> "OPTION_NOT_FOUND", poll |-> NoPoll]
         ELSE [db |-> persistVote(db1, pollKey, fpKey, ipKey, countVote(poll, i),
                                  id, seconds, t),
               code |-> "ok", poll |-> countVote(poll, i)]

----------------------------------------------------------------------------
\* Responses.

percent_Floor(optionVotes, totalVotes) ==
  IF totalVotes = 0 THEN 0 ELSE (100 * optionVotes) \div totalVotes

\* Math.round(votes / totalVotes * 100)
percent(optionVotes, totalVotes) ==
  IF totalVotes = 0 THEN 0
  ELSE (200 * optionVotes + totalVotes) \div (2 * totalVotes)

toPublicPoll(poll, voted) ==
  [id |-> poll.id, visibility |-> poll.visibility, totalVotes |-> poll.totalVotes,
   createdAt |-> poll.createdAt, expiresAt |-> poll.expiresAt, hasVoted |-> voted,
   options |-> [i \in 1..Len(poll.options) |->
                  [id |-> poll.options[i].id, votes |-> poll.options[i].votes,
                   percent |-> percent(poll.options[i].votes, poll.totalVotes)]]]

NoActor == [ipHash |-> hash(0), fingerprintHash |-> hash(<<hash(0), 0>>)]

\* kept: the documents the summaries of a listing were made from (recorded
\* for the properties; the reply carries the summaries only).  logged: the
\* number of failures the call has caught and written to console.error.
\* poll: the document a reply with a poll view was made from (recorded for
\* the properties); view: the poll view of the reply.
Response(op, pollId, option, actor, code, poll, summaries, kept) ==
  [op |-> op, pollId |-> pollId, optionId |-> option, actor |-> actor,
   code |-> code, poll |-> poll, summaries |-> summaries, kept |-> kept,
   hasVoted |-> FALSE, stale |-> <<>>, logged |-> 0,
   view |-> toPublicPoll(NoPoll, FALSE)]

NoResponse == Response("none", 0, optionId(0), NoActor, "none", NoPoll, <<>>, <<>>)

InFlight ==
  BagCardinality(votes) + BagCardinality(creates) + BagCardinality(lists)
    + BagCardinality(views)

\* getRedisClient of a request handler: the cached client, connected on
\* first use.  (The handlers are modelled for requests whose store commands
\* are served; a connection that fails is modelled in the subscription
\* start, and a rejected promise stays cached.)
getRedisClient ==
  /\ client # "rejected"
  /\ client' = "resolved"

----------------------------------------------------------------------------
\* Publish/subscribe.  A subscriber connection receives, in publish order,
\* the messages of the channels it is subscribed to at the publish; its
\* queue holds the messages Redis has sent and the callback has not run for.

LIVE_CHANNEL_PREFIX == "poll:events:"
PUBLIC_LIST_CHANNEL == <<"poll:list:events">>

getChannelName(pollId) == <<LIVE_CHANNEL_PREFIX, pollId>>

toVoteUpdateEvent(poll) ==
  [type |-> "vote_update", pollId |-> poll.id, totalVotes |-> poll.totalVotes,
   options |-> [i \in 1..Len(poll.options) |->
                  [id |-> poll.options[i].id, votes |-> poll.options[i].votes,
                   percent |-> percent(poll.options[i].votes, poll.totalVotes)]]]

publicListUpdate(pollId, reason) ==
  [type |-> "public_list_update", pollId |-> pollId, reason |-> reason]

NoSubscriber == [pattern |-> FALSE, list |-> FALSE, queue |-> <<>>]

receives(subscriber, channel) ==
  IF channel = PUBLIC_LIST_CHANNEL THEN subscriber.list
  ELSE channel[1] = LIVE_CHANNEL_PREFIX /\ subscriber.pattern

\* One registry for every channel: the peers of all polls and of the feed.
peersOf_All(channel) ==
  publicListPeers \cup UNION {peersByPollId[id] : id \in DOMAIN peersByPollId}

\* The peers the registries hold for a channel.
peersOf(channel) ==
  IF channel = PUBLIC_LIST_CHANNEL THEN publicListPeers
  ELSE IF channel[2] \in DOMAIN peersByPollId THEN peersByPollId[channel[2]]
  ELSE {}

\* attached: the peers registered for the channel at the publish (recorded
\* for the properties; the message carries the payload only).
RedisPublish(sub, channel, message) ==
  [sub EXCEPT !.subscribers =
     [k \in DOMAIN @ |->
        IF receives(@[k], channel)
          THEN [@[k] EXCEPT !.queue =
                  Append(@, [channel |-> channel, message |-> message,
                             attached |-> peersOf(channel)])]
          ELSE @[k]]]

\* publishVoteUpdate / publishPublicListUpdate: the command is served (ok)
\* or the call throws and nothing is published.
publishVoteUpdate(sub, poll, ok) ==
  IF ok THEN RedisPublish(sub, getChannelName(poll.id), toVoteUpdateEvent(poll))
        ELSE sub

publishPublicListUpdate(sub, pollId, reason, ok) ==
  IF ok THEN RedisPublish(sub, PUBLIC_LIST_CHANNEL, publicListUpdate(pollId, reason))
        ELSE sub

----------------------------------------------------------------------------
\* The clock: one tick passes and Redis drops the keys that have expired.

Tick ==
  /\ now < MaxTime
  /\ now' = now + 1
  /\ redis' = [polls |-> RedisPurge(redis.polls, now + 1),
               fpLocks |-> RedisPurge(redis.fpLocks, now + 1),
               ipLocks |-> RedisPurge(redis.ipLocks, now + 1),
               voteRate |-> RedisPurge(redis.voteRate, now + 1),
               createRate |-> RedisPurge(redis.createRate, now + 1),
               publicIndex |-> redis.publicIndex]
  /\ resp' = NoResponse
  /\ UNCHANGED <<env, votes, creates, lists, views, client, fanout>>

\* The clock, when a longer time passes in which nothing else happens:
\* `ticks` ticks pass and Redis drops the keys that have expired by then.
Elapse(ticks, from, limit) ==
  /\ now >= from
  /\ now + ticks <= limit
  /\ now' = now + ticks
  /\ redis' = [polls |-> RedisPurge(redis.polls, now + ticks),
               fpLocks |-> RedisPurge(redis.fpLocks, now + ticks),
               ipLocks |-> RedisPurge(redis.ipLocks, now + ticks),
               voteRate |-> RedisPurge(redis.voteRate, now + ticks),
               createRate |-> RedisPurge(redis.createRate, now + ticks),
               publicIndex |-> redis.publicIndex]
  /\ resp' = NoResponse
  /\ UNCHANGED <<env, votes, creates, lists, views, client, fanout>>

----------------------------------------------------------------------------
\* submitVote: GET the poll and compute the remaining seconds; EVAL; on
\* success publish the vote update and, for a public poll, the list update.

voteAttemptsSoFar(pollId, ipHash) ==
  IF keyVoteRate(pollId, ipHash) \in DOMAIN redis.voteRate
    THEN redis.voteRate[keyVoteRate(pollId, ipHash)].val ELSE 0

SubmitVoteRead(pollId, option, actor, cap) ==
  /\ InFlight < MaxInFlight
  /\ getRedisClient
  /\ voteAttemptsSoFar(pollId, actor.ipHash) + BagCardinality(votes) < cap
  /\ IF keyPoll(pollId) \notin DOMAIN redis.polls
       THEN /\ resp' = Response("vote", pollId, option, actor, "POLL_NOT_FOUND",
                                NoPoll, <<>>, <<>>)
            /\ UNCHANGED votes
       ELSE LET poll == redis.polls[keyPoll(pollId)].val
                ttlSeconds == getRemainingSeconds(poll.expiresAt, now)
            IN IF ttlSeconds <= 0
                 THEN /\ resp' = Response("vote", pollId, option, actor,
                                          "POLL_NOT_FOUND", NoPoll, <<>>, <<>>)
                      /\ UNCHANGED votes
                 ELSE /\ votes' = votes (+) SetToBag({[pollId |-> pollId,
                                     optionId |-> option, actor |-> actor,
                                     ttlSeconds |-> ttlSeconds,
                                     pc |-> "eval", poll |-> NoPoll,
                                     logged |-> 0]})
                      /\ resp' = NoResponse
  /\ UNCHANGED <<now, env, redis, creates, lists, views, fanout>>

\* The PollError submitVote throws for the script's reply.
pollErrorCode(code) ==
  IF code \in {"ok", "ALREADY_VOTED", "OPTION_NOT_FOUND", "RATE_LIMITED"}
    THEN code ELSE "POLL_NOT_FOUND"

Replace(bag, old, new) == (bag (-) SetToBag({old})) (+) SetToBag({new})

SubmitVoteEval(v) ==
  /\ v \in BagToSet(votes)
  /\ v.pc = "eval"
  /\ LET out == VOTE_SCRIPT(redis, now, keyPoll(v.pollId),
                    keyVoteByFingerprint(v.pollId, v.actor.fingerprintHash),
                    keyVoteByIp(v.pollId, v.actor.ipHash),
                    keyVoteRate(v.pollId, v.actor.ipHash),
                    v.optionId, VOTE_ATTEMPT_WINDOW_SECONDS, VOTE_ATTEMPT_MAX,
                    v.ttlSeconds)
     IN /\ redis' = out.db
        /\ IF pollErrorCode(out.code) = "ok"
             THEN /\ votes' = Replace(votes, v,
                                [v EXCEPT !.pc = "publish", !.poll = out.poll])
                  /\ resp' = NoResponse
             ELSE /\ votes' = votes (-) SetToBag({v})
                  /\ resp' = Response("vote", v.pollId, v.optionId, v.actor,
                                      pollErrorCode(out.code), NoPoll, <<>>, <<>>)
  /\ UNCHANGED <<now, env, creates, lists, views, client, fanout>>

\* toPublicPoll(parsed.poll, true)
voteResponse(v, logged) ==
  [Response("vote", v.pollId, v.optionId, v.actor, "ok", v.poll, <<>>, <<>>)
     EXCEPT !.hasVoted = TRUE, !.logged = logged,
            !.view = toPublicPoll(v.poll, TRUE)]

\* console.error in the catch of a publish.
logFailure(logged, ok) == IF ok THEN logged ELSE logged + 1

\* try { await publish... } catch { console.error }: whether a failed
\* publish surfaces as the failure of the operation.
publishFailureSurfaces_Uncaught(ok) == ~ok

publishFailureSurfaces(ok) == FALSE

unexpectedError(op, pollId, actor) ==
  Response(op, pollId, optionId(0), actor, "UNEXPECTED_ERROR", NoPoll, <<>>, <<>>)

\* if (parsed.poll.visibility === "public")
feedAnnounced_Always(poll) == TRUE

feedAnnounced(poll) == poll.visibility = "public"

SubmitVotePublish(v, ok) ==
  /\ v \in BagToSet(votes)
  /\ v.pc = "publish"
  /\ subscription' = publishVoteUpdate(subscription, v.poll, ok)
  /\ IF publishFailureSurfaces(ok)
       THEN /\ votes' = votes (-) SetToBag({v})
            /\ resp' = unexpectedError("vote", v.pollId, v.actor)
     ELSE IF feedAnnounced(v.poll)
       THEN /\ votes' = Replace(votes, v, [v EXCEPT !.pc = "publishList",
                                               !.logged = logFailure(@, ok)])
            /\ resp' = NoResponse
     ELSE /\ votes' = votes (-) SetToBag({v})
          /\ resp' = voteResponse(v, logFailure(v.logged, ok))
  /\ UNCHANGED <<now, env, redis, creates, lists, views, client,
                 peersByPollId, publicListPeers, peers>>

SubmitVotePublishList(v, ok) ==
  /\ v \in BagToSet(votes)
  /\ v.pc = "publishList"
  /\ subscription' =
       publishPublicListUpdate(subscription, v.poll.id, "poll_updated", ok)
  /\ votes' = votes (-) SetToBag({v})
  /\ resp' = IF publishFailureSurfaces(ok)
               THEN unexpectedError("vote", v.pollId, v.actor)
               ELSE voteResponse(v, logFailure(v.logged, ok))
  /\ UNCHANGED <<now, env, redis, creates, lists, views, client,
                 peersByPollId, publicListPeers, peers>>

----------------------------------------------------------------------------
\* createPoll: INCR the creation counter; EXPIRE it on first touch; draw an
\* id and test it (up to ID_ATTEMPTS times); SET the document; for a public
\* poll ZADD the public index and publish the list update.

rateLimited_AtMax(attempts, max) == attempts >= max

rateLimited(attempts, max) == attempts > max

createAttemptsSoFar(ipHash) ==
  IF keyCreateRate(ipHash) \in DOMAIN redis.createRate
    THEN redis.createRate[keyCreateRate(ipHash)].val ELSE 0

CreateBegin(actor, visibility, cap) ==
  /\ InFlight < MaxInFlight
  /\ getRedisClient
  /\ createAttemptsSoFar(actor.ipHash) < cap
  /\ LET key == keyCreateRate(actor.ipHash)
         incremented == RedisIncr(redis.createRate, key)
         attempts == incremented[key].val
         c == [actor |-> actor, visibility |-> visibility, attempts |-> attempts,
               tries |-> 0, pollId |-> 0, createdAt |-> 0, pc |-> "findId"]
     IN /\ redis' = [redis EXCEPT !.createRate = incremented]
        /\ IF attempts = 1
             THEN /\ creates' = creates (+) SetToBag({[c EXCEPT !.pc = "expire"]})
                  /\ resp' = NoResponse
           ELSE IF rateLimited(attempts, CREATE_POLL_RATE_LIMIT_MAX)
             THEN /\ resp' = Response("create", 0, optionId(0), actor,
                                      "RATE_LIMITED", NoPoll, <<>>, <<>>)
                  /\ UNCHANGED creates
           ELSE /\ creates' = creates (+) SetToBag({c})
                /\ resp' = NoResponse
  /\ UNCHANGED <<now, env, votes, lists, views, fanout>>

\* The EXPIRE is a command of its own, awaited after the INCR: when it
\* fails (ok = FALSE) createPoll throws, the route answers UNEXPECTED_ERROR
\* and the counter stays as the INCR left it.
CreateExpire(c, ok) ==
  /\ c \in BagToSet(creates)
  /\ c.pc = "expire"
  /\ IF ok
       THEN /\ redis' = [redis EXCEPT !.createRate =
                           RedisExpire(@, keyCreateRate(c.actor.ipHash),
                                       CREATE_POLL_RATE_LIMIT_WINDOW_SECONDS, now)]
            /\ creates' = Replace(creates, c, [c EXCEPT !.pc = "findId"])
            /\ resp' = NoResponse
       ELSE /\ redis' = redis
            /\ creates' = creates (-) SetToBag({c})
            /\ resp' = unexpectedError("create", 0, c.actor)
  /\ UNCHANGED <<now, env, votes, lists, views, client, fanout>>

\* for (let attempt = 0; attempt < 4; attempt += 1): whether another
\* candidate is drawn after `tries` candidates and one more were taken.
moreCandidates_OneMore(tries) == tries < ID_ATTEMPTS

moreCandidates(tries) == tries + 1 < ID_ATTEMPTS

CreateFindId(c, candidate) ==
  /\ c \in BagToSet(creates)
  /\ c.pc = "findId"
  /\ IF keyPoll(candidate) \notin DOMAIN redis.polls
       THEN /\ creates' = Replace(creates, c,
                  [c EXCEPT !.pc = "write", !.pollId = candidate, !.createdAt = now])
            /\ resp' = NoResponse
     ELSE IF moreCandidates(c.tries)
       THEN /\ creates' = Replace(creates, c, [c EXCEPT !.tries = @ + 1])
            /\ resp' = NoResponse
     ELSE /\ creates' = creates (-) SetToBag({c})
          /\ resp' = Response("create", 0, optionId(0), c.actor,
                              "ID_GENERATION_FAILED", NoPoll, <<>>, <<>>)
  /\ UNCHANGED <<now, env, redis, votes, lists, views, client, fanout>>

CreateWrite(c) ==
  /\ c \in BagToSet(creates)
  /\ c.pc = "write"
  /\ LET poll == newPoll(c.pollId, c.visibility, c.createdAt, getPollTtlSeconds)
     IN /\ redis' = [redis EXCEPT !.polls =
                       RedisSetEx(@, keyPoll(c.pollId), poll, getPollTtlSeconds, now)]
        /\ IF c.visibility = "public"
             THEN /\ creates' = Replace(creates, c, [c EXCEPT !.pc = "index"])
                  /\ resp' = NoResponse
             ELSE /\ creates' = creates (-) SetToBag({c})
                  /\ resp' = [Response("create", c.pollId, optionId(0), c.actor,
                                       "ok", poll, <<>>, <<>>)
                                EXCEPT !.view = toPublicPoll(poll, FALSE)]
  /\ UNCHANGED <<now, env, votes, lists, views, client, fanout>>

RedisZAdd(zset, score, member) ==
  [x \in DOMAIN zset \cup {member} |-> IF x = member THEN score ELSE zset[x]]

\* The ZADD is awaited outside any try: when the command fails (ok = FALSE)
\* createPoll throws and the route answers UNEXPECTED_ERROR.
CreateIndex(c, ok) ==
  /\ c \in BagToSet(creates)
  /\ c.pc = "index"
  /\ IF ok
       THEN /\ redis' = [redis EXCEPT !.publicIndex =
                           RedisZAdd(@, c.createdAt, c.pollId)]
            /\ creates' = Replace(creates, c, [c EXCEPT !.pc = "publish"])
            /\ resp' = NoResponse
       ELSE /\ redis' = redis
            /\ creates' = creates (-) SetToBag({c})
            /\ resp' = unexpectedError("create", c.pollId, c.actor)
  /\ UNCHANGED <<now, env, votes, lists, views, client, fanout>>

CreatePublish(c, ok) ==
  /\ c \in BagToSet(creates)
  /\ c.pc = "publish"
  /\ subscription' =
       publishPublicListUpdate(subscription, c.pollId, "poll_created", ok)
  /\ creates' = creates (-) SetToBag({c})
  /\ resp' = IF publishFailureSurfaces(ok)
               THEN unexpectedError("create", c.pollId, c.actor)
               ELSE [Response("create", c.pollId, optionId(0), c.actor, "ok",
                       newPoll(c.pollId, c.visibility, c.createdAt,
                               getPollTtlSeconds), <<>>, <<>>)
                      EXCEPT !.logged = logFailure(0, ok),
                             !.view = toPublicPoll(
                                        newPoll(c.pollId, c.visibility, c.createdAt,
                                                getPollTtlSeconds), FALSE)]
  /\ UNCHANGED <<now, env, redis, votes, lists, views, client,
                 peersByPollId, publicListPeers, peers>>

----------------------------------------------------------------------------
\* listPublicPolls: ZRANGE ... REV; GET each id; ZREM the stale ids.

DEFAULT_PUBLIC_LIST_LIMIT == 24
PUBLIC_LIST_MAX_LIMIT == 100

Max2(a, b) == IF a >= b THEN a ELSE b
Min2(a, b) == IF a <= b THEN a ELSE b

\* Number.isFinite(limit) ? Math.floor(limit) : DEFAULT_PUBLIC_LIST_LIMIT
parsedLimit(limit) ==
  IF limit.finite THEN limit.halves \div 2 ELSE DEFAULT_PUBLIC_LIST_LIMIT

normalizedLimit(limit) == Max2(1, Min2(PUBLIC_LIST_MAX_LIMIT, limit))

\* The members of a sorted set from the highest score down (equal scores:
\* from the highest member down), as ZRANGE 0 -1 REV returns them.
RECURSIVE RedisZRevAll(_)
RedisZRevAll(zset) ==
  IF DOMAIN zset = {} THEN <<>>
  ELSE LET top == CHOOSE m \in DOMAIN zset :
                    \A x \in DOMAIN zset :
                      \/ zset[m] > zset[x]
                      \/ (zset[m] = zset[x] /\ m >= x)
       IN <<top>> \o RedisZRevAll([x \in DOMAIN zset \ {top} |-> zset[x]])

RedisZRangeRev(zset, stop) ==
  LET all == RedisZRevAll(zset)
  IN SubSeq(all, 1, Min2(Len(all), stop + 1))

RedisZRem_Keep(zset, members) == zset

RedisZRem(zset, members) ==
  [x \in DOMAIN zset \ members |-> zset[x]]

asPollRecord(raw) ==
  IF raw = NoPoll THEN NoPoll
  ELSE [raw EXCEPT !.visibility = IF @ = "private" THEN "private" ELSE "public"]

toPollSummary(poll) ==
  [id |-> poll.id, totalVotes |-> poll.totalVotes,
   optionCount |-> Len(poll.options), createdAt |-> poll.createdAt,
   expiresAt |-> poll.expiresAt]

isStale_AbsentOnly(poll) == poll = NoPoll

isStale(poll) == poll = NoPoll \/ poll.visibility = "private"

RedisGet(m, k) == IF k \in DOMAIN m THEN m[k].val ELSE NoPoll

Range(seq) == {seq[i] : i \in 1..Len(seq)}

\* stale: the ids the call has collected as stale (recorded for the
\* properties, as kept is).
listResponse(l) ==
  [Response("list", 0, optionId(0), NoActor, "ok", NoPoll, l.summaries, l.kept)
     EXCEPT !.stale = l.stale]

ListRange(limit) ==
  /\ InFlight < MaxInFlight
  /\ getRedisClient
  /\ LET ids == RedisZRangeRev(redis.publicIndex,
                               normalizedLimit(parsedLimit(limit)) - 1)
     IN IF Len(ids) = 0
          THEN /\ resp' = Response("list", 0, optionId(0), NoActor, "ok", NoPoll,
                                   <<>>, <<>>)
               /\ UNCHANGED lists
          ELSE /\ lists' = lists (+) SetToBag({[limit |-> limit,
                               ids |-> ids, idx |-> 1,
                               stale |-> <<>>, summaries |-> <<>>, kept |-> <<>>,
                               pc |-> "get"]})
               /\ resp' = NoResponse
  /\ UNCHANGED <<now, env, redis, votes, creates, views, fanout>>

\* One GET of the Promise.all, with the loop body the code runs on its
\* result once all have arrived.
ListGet(l) ==
  /\ l \in BagToSet(lists)
  /\ l.pc = "get"
  /\ LET pollId == l.ids[l.idx]
         poll == asPollRecord(RedisGet(redis.polls, keyPoll(pollId)))
         l1 == IF isStale(poll)
                 THEN [l EXCEPT !.stale = Append(@, pollId), !.idx = @ + 1]
                 ELSE [l EXCEPT !.summaries = Append(@, toPollSummary(poll)),
                                !.kept = Append(@, poll), !.idx = @ + 1]
     IN IF l1.idx <= Len(l.ids)
          THEN /\ lists' = Replace(lists, l, l1)
               /\ resp' = NoResponse
        ELSE IF Len(l1.stale) > 0
          THEN /\ lists' = Replace(lists, l, [l1 EXCEPT !.pc = "prune"])
               /\ resp' = NoResponse
        ELSE /\ lists' = lists (-) SetToBag({l})
             /\ resp' = listResponse(l1)
  /\ UNCHANGED <<now, env, redis, votes, creates, views, client, fanout>>

ListPrune(l) ==
  /\ l \in BagToSet(lists)
  /\ l.pc = "prune"
  /\ redis' = [redis EXCEPT !.publicIndex = RedisZRem(@, Range(l.stale))]
  /\ lists' = lists (-) SetToBag({l})
  /\ resp' = listResponse(l)
  /\ UNCHANGED <<now, env, votes, creates, views, client, fanout>>

----------------------------------------------------------------------------
\* getPollForViewer: GET the poll; then MULTI EXISTS fingerprint lock,
\* EXISTS origin lock.

ViewRead(pollId, actor) ==
  /\ InFlight < MaxInFlight
  /\ getRedisClient
  /\ LET poll == asPollRecord(RedisGet(redis.polls, keyPoll(pollId)))
     IN IF poll = NoPoll
          THEN /\ resp' = Response("view", pollId, optionId(0), actor,
                                   "POLL_NOT_FOUND", NoPoll, <<>>, <<>>)
               /\ UNCHANGED views
          ELSE /\ views' = views (+) SetToBag({[pollId |-> pollId,
                                                 actor |-> actor, poll |-> poll]})
               /\ resp' = NoResponse
  /\ UNCHANGED <<now, env, redis, votes, creates, lists, fanout>>

hasVoted(db, pollId, actor) ==
  \/ keyVoteByFingerprint(pollId, actor.fingerprintHash) \in DOMAIN db.fpLocks
  \/ keyVoteByIp(pollId, actor.ipHash) \in DOMAIN db.ipLocks

ViewExists(w) ==
  /\ w \in BagToSet(views)
  /\ views' = views (-) SetToBag({w})
  /\ resp' = [Response("view", w.pollId, optionId(0), w.actor, "ok", w.poll,
                       <<>>, <<>>)
                EXCEPT !.hasVoted = hasVoted(redis, w.pollId, w.actor),
                       !.view = toPublicPoll(w.poll,
                                             hasVoted(redis, w.pollId, w.actor))]
  /\ UNCHANGED <<now, env, redis, votes, creates, lists, client, fanout>>

----------------------------------------------------------------------------
\* The live fanout: ensureSubscriptionStarted, the registries, the websocket
\* hooks open and close, and the subscriber callbacks.

Peers == 1..NumPeers

NoPeer == [mode |-> "none", pollId |-> 0, open |-> "none", attempt |-> 0,
           closed |-> FALSE, inbox |-> <<>>]

NoSubscription ==
  [promise |-> "null", attempt |-> 0, pc |-> "none", outcome |-> <<>>,
   subscribers |-> <<>>]

\* if (subscriptionStartPromise) return subscriptionStartPromise
needsStart_Always(promise) == TRUE

needsStart(promise) == promise = "null"

\* The call of ensureSubscriptionStarted up to its first await: a new start
\* sequence when no promise is cached, the cached promise otherwise.
ensureSubscriptionStarted(sub) ==
  IF needsStart(sub.promise)
    THEN [sub EXCEPT !.promise = "pending", !.attempt = @ + 1, !.pc = "client",
                     !.outcome = Append(@, "pending"),
                     !.subscribers = Append(@, NoSubscriber)]
    ELSE sub

\* open(peer): attachLivePeer or attachPublicListPeer, up to the await of
\* the start promise.
PeerOpen(p, mode, pollId) ==
  /\ peers[p].open = "none"
  /\ needsStart(subscription.promise) => subscription.attempt < MaxStarts
  /\ subscription' = ensureSubscriptionStarted(subscription)
  /\ peers' = [peers EXCEPT ![p] =
       [@ EXCEPT !.mode = mode, !.pollId = pollId, !.open = "waiting",
                 !.attempt = subscription'.attempt]]
  /\ resp' = NoResponse
  /\ UNCHANGED <<now, env, redis, votes, creates, lists, views, client,
                 peersByPollId, publicListPeers>>

\* .catch: subscriptionStartPromise = null; throw error
startFailed(sub) ==
  [sub EXCEPT !.promise = "null", !.pc = "none", !.outcome[sub.attempt] = "failed"]

\* await getRedisClient(); redis.duplicate(); subscriber.connect() is called.
StartClient(ok) ==
  /\ subscription.pc = "client"
  /\ client' = IF client = "null" THEN (IF ok THEN "resolved" ELSE "rejected")
                                  ELSE client
  /\ subscription' = IF client' = "resolved"
                        THEN [subscription EXCEPT !.pc = "connect"]
                        ELSE startFailed(subscription)
  /\ resp' = NoResponse
  /\ UNCHANGED <<now, env, redis, votes, creates, lists, views,
                 peersByPollId, publicListPeers, peers>>

\* await subscriber.connect(); pSubscribe is called.
StartConnect(ok) ==
  /\ subscription.pc = "connect"
  /\ subscription' = IF ok THEN [subscription EXCEPT !.pc = "pSubscribe"]
                          ELSE startFailed(subscription)
  /\ resp' = NoResponse
  /\ UNCHANGED <<now, env, redis, votes, creates, lists, views, client,
                 peersByPollId, publicListPeers, peers>>

\* await subscriber.pSubscribe(...); subscribe is called.
StartPSubscribe(ok) ==
  /\ subscription.pc = "pSubscribe"
  /\ subscription' =
       IF ok THEN [subscription EXCEPT !.pc = "subscribe",
                     !.subscribers[subscription.attempt].pattern = TRUE]
             ELSE startFailed(subscription)
  /\ resp' = NoResponse
  /\ UNCHANGED <<now, env, redis, votes, creates, lists, views, client,
                 peersByPollId, publicListPeers, peers>>

\* await subscriber.subscribe(PUBLIC_LIST_CHANNEL, ...); the promise resolves.
\* A sequence that fails here leaves its subscriber connected and its
\* pattern subscription in place.
StartSubscribe(ok) ==
  /\ subscription.pc = "subscribe"
  /\ subscription' =
       IF ok THEN [subscription EXCEPT !.promise = "resolved", !.pc = "none",
                     !.outcome[subscription.attempt] = "ok",
                     !.subscribers[subscription.attempt].list = TRUE]
             ELSE startFailed(subscription)
  /\ resp' = NoResponse
  /\ UNCHANGED <<now, env, redis, votes, creates, lists, views, client,
                 peersByPollId, publicListPeers, peers>>

attachLivePeer(registry, pollId, peer) ==
  [x \in DOMAIN registry \cup {pollId} |->
     IF x = pollId
       THEN IF pollId \in DOMAIN registry THEN registry[pollId] \cup {peer}
                                          ELSE {peer}
       ELSE registry[x]]

\* detach and broadcast without the removal of an emptied entry.
pruneEmpty_Keep(registry, pollId) == registry

\* if (peers.size === 0) peersByPollId.delete(pollId)
pruneEmpty(registry, pollId) ==
  IF pollId \in DOMAIN registry /\ registry[pollId] = {}
    THEN [x \in DOMAIN registry \ {pollId} |-> registry[x]]
    ELSE registry

detachLivePeer(registry, pollId, peer) ==
  IF pollId \notin DOMAIN registry THEN registry
  ELSE pruneEmpty([registry EXCEPT ![pollId] = @ \ {peer}], pollId)

\* The attach of a peer whose start promise has resolved.
AttachResume(p) ==
  /\ peers[p].open = "waiting"
  /\ subscription.outcome[peers[p].attempt] = "ok"
  /\ IF peers[p].mode = "public"
       THEN /\ publicListPeers' = publicListPeers \cup {p}
            /\ UNCHANGED peersByPollId
       ELSE /\ peersByPollId' = attachLivePeer(peersByPollId, peers[p].pollId, p)
            /\ UNCHANGED publicListPeers
  /\ peers' = [peers EXCEPT ![p].open = "done"]
  /\ resp' = NoResponse
  /\ UNCHANGED <<now, env, redis, votes, creates, lists, views, client,
                 subscription>>

\* The attach of a peer whose start promise has rejected: the catch of open
\* closes the peer.
AttachCatch(p) ==
  /\ peers[p].open = "waiting"
  /\ subscription.outcome[peers[p].attempt] = "failed"
  /\ peers' = [peers EXCEPT ![p].open = "failed"]
  /\ resp' = NoResponse
  /\ UNCHANGED <<now, env, redis, votes, creates, lists, views, client,
                 subscription, peersByPollId, publicListPeers>>

\* close(peer): the connection has gone; detach.
PeerClose(p) ==
  /\ peers[p].open # "none"
  /\ ~peers[p].closed
  /\ IF peers[p].mode = "public"
       THEN /\ publicListPeers' = publicListPeers \ {p}
            /\ UNCHANGED peersByPollId
       ELSE /\ peersByPollId' = detachLivePeer(peersByPollId, peers[p].pollId, p)
            /\ UNCHANGED publicListPeers
  /\ peers' = [peers EXCEPT ![p].closed = TRUE]
  /\ resp' = NoResponse
  /\ UNCHANGED <<now, env, redis, votes, creates, lists, views, client,
                 subscription>>

\* sendAll where the first peer that throws ends the loop: no peer receives
\* the message once a send has failed.
sendAll_StopAtFailure(ps, targets, failing, message) ==
  [p \in DOMAIN ps |->
     IF failing = {} /\ p \in targets /\ ~ps[p].closed
       THEN [ps[p] EXCEPT !.inbox = Append(@, message)]
       ELSE ps[p]]

\* peer.send to each peer of targets: the peers of failing throw; the others
\* receive the message unless their connection has gone.
sendAll(ps, targets, failing, message) ==
  [p \in DOMAIN ps |->
     IF p \in targets \ failing /\ ~ps[p].closed
       THEN [ps[p] EXCEPT !.inbox = Append(@, message)]
       ELSE ps[p]]

broadcastToPeers(registry, pollId, failing) ==
  IF pollId \notin DOMAIN registry THEN registry
  ELSE pruneEmpty([registry EXCEPT ![pollId] = @ \ failing], pollId)

\* The callback of subscriber k runs for the message at the head of its
\* queue.
Deliver(k, failing) ==
  /\ k \in DOMAIN subscription.subscribers
  /\ subscription.subscribers[k].queue # <<>>
  /\ LET message == Head(subscription.subscribers[k].queue)
     IN /\ failing \subseteq peersOf(message.channel)
        /\ peers' = sendAll(peers, peersOf(message.channel), failing, message)
        /\ IF message.channel = PUBLIC_LIST_CHANNEL
             THEN /\ publicListPeers' = publicListPeers \ failing
                  /\ UNCHANGED peersByPollId
             ELSE /\ peersByPollId' =
                       broadcastToPeers(peersByPollId, message.channel[2], failing)
                  /\ UNCHANGED publicListPeers
  /\ subscription' = [subscription EXCEPT !.subscribers[k].queue = Tail(@)]
  /\ resp' = NoResponse
  /\ UNCHANGED <<now, env, redis, votes, creates, lists, views, client>>

----------------------------------------------------------------------------
\* createPoll's validation of the options.  A text is a sequence of
\* characters; a raw option is a text (isString) or a value of another
\* type, which carries no text.

toLowerCaseChar(ch) ==
  CASE ch = "A" -> "a" [] ch = "B" -> "b" [] OTHER -> ch

toLowerCase(text) == [i \in 1..Len(text) |-> toLowerCaseChar(text[i])]

RECURSIVE trimStart(_)
trimStart(text) ==
  IF Len(text) > 0 /\ text[1] = " " THEN trimStart(Tail(text)) ELSE text

RECURSIVE trimEnd(_)
trimEnd(text) ==
  IF Len(text) > 0 /\ text[Len(text)] = " "
    THEN trimEnd(SubSeq(text, 1, Len(text) - 1)) ELSE text

trim(text) == trimEnd(trimStart(text))

\* rawOptions.filter(is string).map(trim).filter(non-empty)
normalizedOptions(rawOptions) ==
  LET strings == SelectSeq(rawOptions, LAMBDA option : option.isString)
      trimmed == [i \in 1..Len(strings) |-> trim(strings[i].text)]
  IN SelectSeq(trimmed, LAMBDA option : Len(option) > 0)

\* A Map in insertion order: a sequence of [key, value].
MapHas(map, key) == \E i \in 1..Len(map) : map[i].key = key

MapSet(map, key, value) ==
  IF MapHas(map, key)
    THEN [i \in 1..Len(map) |->
            IF map[i].key = key THEN [key |-> key, value |-> value] ELSE map[i]]
    ELSE Append(map, [key |-> key, value |-> value])

MapValues(map) == [i \in 1..Len(map) |-> map[i].value]

firstSeen_Always(map, lowered) == TRUE

\* if (!optionsByLower.has(lowered))
firstSeen(map, lowered) == ~MapHas(map, lowered)

\* The loop over normalized that fills optionsByLower.
RECURSIVE optionsByLower(_, _)
optionsByLower(normalized, map) ==
  IF Len(normalized) = 0 THEN [code |-> "ok", map |-> map]
  ELSE LET option == Head(normalized)
           lowered == toLowerCase(option)
       IN IF firstSeen(map, lowered)
            THEN IF Len(option) > 120
                   THEN [code |-> "INVALID_OPTIONS", map |-> <<>>]
                   ELSE optionsByLower(Tail(normalized),
                                       MapSet(map, lowered, option))
            ELSE optionsByLower(Tail(normalized), map)

sanitizeOptions(rawOptions) ==
  LET normalized == normalizedOptions(rawOptions)
      unique == {toLowerCase(normalized[i]) : i \in 1..Len(normalized)}
  IN IF Cardinality(unique) < 2 \/ Cardinality(unique) > 8
       THEN [code |-> "INVALID_OPTIONS", options |-> <<>>]
       ELSE LET filled == optionsByLower(normalized, <<>>)
            IN [code |-> filled.code, options |-> MapValues(filled.map)]

\* options.map((option, index) => ({ id: `o${index + 1}`, text: option, votes: 0 }))
newOptions(options) ==
  [i \in 1..Len(options) |->
     [id |-> optionId(i), text |-> options[i], votes |-> 0]]

\* createPoll up to the options of its poll record: a call whose options
\* are rejected fails INVALID_OPTIONS before it touches the store.
CreateValidate(c) ==
  /\ c \in BagToSet(creates)
  /\ c.pc = "sanitize"
  /\ LET sanitized == sanitizeOptions(c.rawOptions)
     IN IF sanitized.code = "ok"
          THEN /\ creates' = Replace(creates, c,
                     [c EXCEPT !.pc = "validated",
                               !.options = newOptions(sanitized.options)])
               /\ resp' = NoResponse
          ELSE /\ creates' = creates (-) SetToBag({c})
               /\ resp' = Response("create", 0, optionId(0), NoActor,
                                   sanitized.code, NoPoll, <<>>, <<>>)
  /\ UNCHANGED <<now, env, redis, votes, lists, views, client, fanout>>

----------------------------------------------------------------------------
\* The entry of createPoll and of submitVote: the checks of the input that
\* run before the first command is sent to the store.

sanitizeTitle_AcceptAll(rawTitle) == [code |-> "ok", title |-> rawTitle.text]

sanitizeTitle(rawTitle) ==
  IF ~rawTitle.isString THEN [code |-> "INVALID_TITLE", title |-> <<>>]
  ELSE LET title == trim(rawTitle.text)
       IN IF Len(title) < 4 \/ Len(title) > 180
            THEN [code |-> "INVALID_TITLE", title |-> <<>>]
            ELSE [code |-> "ok", title |-> title]

sanitizeVisibility(rawVisibility) ==
  IF rawVisibility = "private" THEN "private" ELSE "public"

\* createPoll from its call to the INCR of the rate limiter.
CreatePoll(actor, input, cap) ==
  IF sanitizeTitle(input.title).code # "ok"
    THEN /\ resp' = Response("create", 0, optionId(0), NoActor,
                             sanitizeTitle(input.title).code, NoPoll, <<>>, <<>>)
         /\ UNCHANGED <<now, env, redis, votes, creates, lists, views, client,
                        fanout>>
  ELSE IF sanitizeOptions(input.options).code # "ok"
    THEN /\ resp' = Response("create", 0, optionId(0), NoActor,
                             sanitizeOptions(input.options).code, NoPoll,
                             <<>>, <<>>)
         /\ UNCHANGED <<now, env, redis, votes, creates, lists, views, client,
                        fanout>>
  ELSE CreateBegin(actor, sanitizeVisibility(input.visibility), cap)

\* The ids as the texts a request carries, and back: a text that names no
\* poll (no option) is the id of none.
Digit == <<"1", "2", "3", "4", "5", "6", "7", "8", "9">>

pollIdText(pollId) == <<"p", Digit[pollId]>>

optionIdText(index) == <<"o", Digit[index]>>

pollIdOf(text) ==
  IF \E p \in PollIds : text = pollIdText(p)
    THEN CHOOSE p \in PollIds : text = pollIdText(p) ELSE 0

optionIdOf(text) ==
  IF \E i \in 1..NumOptions : text = optionIdText(i)
    THEN optionId(CHOOSE i \in 1..NumOptions : text = optionIdText(i))
    ELSE optionId(0)

\* input.pollId?.trim(): undefined stays undefined.
trimmed(raw) == IF raw.isString THEN trim(raw.text) ELSE <<>>

\* if (!pollId || !optionId)
invalidVote_Never(pollId, option) == FALSE

invalidVote(pollId, option) == Len(pollId) = 0 \/ Len(option) = 0

\* getPollOrThrow: if (!pollId || pollId.length > 80)
invalidPollId(pollId) == Len(pollId) = 0 \/ Len(pollId) > 80

\* submitVote from its call to the GET of the poll.
SubmitVote(actor, input, cap) ==
  LET pollId == trimmed(input.pollId)
      option == trimmed(input.optionId)
  IN IF invalidVote(pollId, option)
       THEN /\ resp' = Response("vote", 0, optionId(0), NoActor, "INVALID_VOTE",
                                NoPoll, <<>>, <<>>)
            /\ UNCHANGED <<now, env, redis, votes, creates, lists, views, client,
                           fanout>>
     ELSE IF invalidPollId(pollId)
       THEN /\ resp' = Response("vote", 0, optionId(0), actor, "INVALID_POLL_ID",
                                NoPoll, <<>>, <<>>)
            /\ UNCHANGED <<now, env, redis, votes, creates, lists, views, client,
                           fanout>>
     ELSE SubmitVoteRead(pollIdOf(pollId), optionIdOf(option), actor, cap)

----------------------------------------------------------------------------
\* The specifications.

EmptyRedis ==
  [polls |-> <<>>, fpLocks |-> <<>>, ipLocks |-> <<>>, voteRate |-> <<>>,
   createRate |-> <<>>, publicIndex |-> <<>>]

Idle ==
  /\ votes = EmptyBag
  /\ creates = EmptyBag
  /\ lists = EmptyBag
  /\ views = EmptyBag
  /\ resp = NoResponse
  /\ client = "null"
  /\ subscription = NoSubscription
  /\ peersByPollId = <<>>
  /\ publicListPeers = {}
  /\ peers = [p \in Peers |-> NoPeer]

\* The actor of the first request.
Creator == getActor([ip |-> 1, agent |-> 1])

\* Spec: creation and votes by several identities while the clock runs over
\* the life of a poll that lives ShortTtlSeconds.
Init ==
  /\ now = 0
  /\ env = ShortTtlSeconds
  /\ redis = EmptyRedis
  /\ Idle

\* The outcomes of the commands of the secondary effects (ZADD, PUBLISH):
\* all served, or each served or failing.
Served == {TRUE}
ServedOrFailing == BOOLEAN

CreateSteps(outcomes) ==
  \/ \E c \in BagToSet(creates), ok \in outcomes : CreateExpire(c, ok)
  \/ \E c \in BagToSet(creates), id \in PollIds : CreateFindId(c, id)
  \/ \E c \in BagToSet(creates) : CreateWrite(c)
  \/ \E c \in BagToSet(creates), ok \in outcomes : CreateIndex(c, ok)
  \/ \E c \in BagToSet(creates), ok \in outcomes : CreatePublish(c, ok)

VoteSteps(outcomes) ==
  \/ \E v \in BagToSet(votes) : SubmitVoteEval(v)
  \/ \E v \in BagToSet(votes), ok \in outcomes : SubmitVotePublish(v, ok)
  \/ \E v \in BagToSet(votes), ok \in outcomes : SubmitVotePublishList(v, ok)

Voters == {getActor([ip |-> i, agent |-> 1]) : i \in Ips}
ValidOptionIds == {optionId(i) : i \in 1..NumOptions}

Next ==
  \/ Tick
  \/ CreateBegin(Creator, "public", MaxCreates)
  \/ CreateSteps(Served)
  \/ \E p \in PollIds, o \in ValidOptionIds, a \in Voters :
       SubmitVoteRead(p, o, a, MaxAttempts)
  \/ VoteSteps(Served)

Spec == Init /\ [][Next]_vars

\* SpecBurst: one origin (two browsers) votes again and again on a poll
\* that createPoll has just written, up to BurstAttempts attempts.
BurstActors == {getActor([ip |-> 1, agent |-> a]) : a \in Agents}

BurstOptionIds == {optionId(0), optionId(1)}

InitBurst ==
  /\ now = 0
  /\ env = ShortTtlSeconds
  /\ redis = [EmptyRedis EXCEPT
       !.polls = RedisSetEx(<<>>, keyPoll(1),
                   newPoll(1, "private", 0, ShortTtlSeconds), ShortTtlSeconds, 0),
       !.createRate = RedisExpire(RedisIncr(<<>>, keyCreateRate(Creator.ipHash)),
                        keyCreateRate(Creator.ipHash),
                        CREATE_POLL_RATE_LIMIT_WINDOW_SECONDS, 0)]
  /\ Idle

NextBurst ==
  \/ Tick
  \/ \E o \in BurstOptionIds, a \in BurstActors : SubmitVoteRead(1, o, a, BurstAttempts)
  \/ \E v \in BagToSet(votes) : SubmitVoteEval(v)
  \/ \E v \in BagToSet(votes), ok \in Served : SubmitVotePublish(v, ok)

SpecBurst == InitBurst /\ [][NextBurst]_vars

\* SpecList: creations of public and private polls, listings and votes of
\* one identity.
NextList ==
  \/ Tick
  \/ \E vis \in Visibilities : CreateBegin(Creator, vis, ListCreates)
  \/ CreateSteps(Served)
  \/ SubmitVoteRead(1, optionId(1), Creator, MaxAttempts)
  \/ VoteSteps(Served)
  \/ \E limit \in Limits : ListRange(limit)
  \/ \E l \in BagToSet(lists) : ListGet(l)
  \/ \E l \in BagToSet(lists) : ListPrune(l)

SpecList == Init /\ [][NextList]_vars

\* SpecView: two identities vote on a poll that createPoll has just written
\* while the clock runs, and the first of them views the poll.
NextView ==
  \/ Tick
  \/ \E a \in Voters : SubmitVoteRead(1, optionId(1), a, MaxAttempts)
  \/ \E v \in BagToSet(votes) : SubmitVoteEval(v)
  \/ \E v \in BagToSet(votes), ok \in Served : SubmitVotePublish(v, ok)
  \/ ViewRead(1, Creator)
  \/ \E w \in BagToSet(views) : ViewExists(w)

SpecView == InitBurst /\ [][NextView]_vars

\* SpecLimit: one origin creates polls again and again, up to CreateBurst
\* attempts.
NextLimit ==
  \/ Tick
  \/ CreateBegin(Creator, "public", CreateBurst)
  \/ CreateSteps(Served)

SpecLimit == Init /\ [][NextLimit]_vars

\* SpecFail: one identity creates a public poll and votes on it while the
\* clock runs; the ZADD and each publish may fail.
NextFail ==
  \/ Tick
  \/ CreateBegin(Creator, "public", MaxCreates)
  \/ CreateSteps(ServedOrFailing)
  \/ SubmitVoteRead(1, optionId(1), Creator, MaxAttempts)
  \/ VoteSteps(ServedOrFailing)

SpecFail == Init /\ [][NextFail]_vars

\* SpecStart: websocket peers connect and disconnect in a process that has
\* not used the store yet; every step of the subscription start may fail.
StartSteps ==
  \/ \E ok \in ServedOrFailing : StartClient(ok)
  \/ \E ok \in ServedOrFailing : StartConnect(ok)
  \/ \E ok \in ServedOrFailing : StartPSubscribe(ok)
  \/ \E ok \in ServedOrFailing : StartSubscribe(ok)

PeerSteps ==
  \/ \E p \in Peers : AttachResume(p)
  \/ \E p \in Peers : AttachCatch(p)
  \/ \E p \in Peers : PeerClose(p)

NextStart ==
  \/ \E p \in Peers : PeerOpen(p, "poll", 1)
  \/ \E p \in Peers : PeerOpen(p, "public", 0)
  \/ StartSteps
  \/ PeerSteps

SpecStart == Init /\ [][NextStart]_vars

\* SpecLive: two identities vote on a poll that createPoll has just written
\* while peers attach to the poll and detach, and the subscriber callbacks
\* run.
NextLive ==
  \/ \E a \in Voters : SubmitVoteRead(1, optionId(1), a, MaxAttempts)
  \/ \E v \in BagToSet(votes) : SubmitVoteEval(v)
  \/ \E v \in BagToSet(votes), ok \in ServedOrFailing : SubmitVotePublish(v, ok)
  \/ \E p \in Peers : PeerOpen(p, "poll", 1)
  \/ StartSteps
  \/ PeerSteps
  \/ \E k \in DOMAIN subscription.subscribers,
        failing \in SUBSET Peers : Deliver(k, failing)

SpecLive == InitBurst /\ [][NextLive]_vars

\* SpecFeed: one identity creates a poll, public or private, and votes on
\* it, for an option of the poll or for none, while peers attach to the
\* stream of a poll or to the public feed and detach, and the subscriber
\* callbacks run; a send may fail.
StreamIds == 1..NumStreams

NextFeed ==
  \/ \E vis \in Visibilities : CreateBegin(Creator, vis, MaxCreates)
  \/ CreateSteps(Served)
  \/ \E o \in BurstOptionIds : SubmitVoteRead(1, o, Creator, MaxAttempts)
  \/ VoteSteps(Served)
  \/ \E p \in Peers, id \in StreamIds : PeerOpen(p, "poll", id)
  \/ \E p \in Peers : PeerOpen(p, "public", 0)
  \/ \E ok \in Served : StartClient(ok)
  \/ \E ok \in Served : StartConnect(ok)
  \/ \E ok \in Served : StartPSubscribe(ok)
  \/ \E ok \in Served : StartSubscribe(ok)
  \/ \E p \in Peers : AttachResume(p)
  \/ \E p \in Peers : PeerClose(p)
  \/ \E k \in DOMAIN subscription.subscribers,
        failing \in SUBSET Peers : Deliver(k, failing)

SpecFeed == Init /\ [][NextFeed]_vars

\* SpecOrder: one origin creates polls under NumListed ids while
\* OrderTime ticks pass, and listings run with the limits of RawLimits.
ListedIds == 1..NumListed

RawLimits ==
  {NotFinite} \cup {[finite |-> TRUE, halves |-> h] : h \in {-1, 3, 5}}

NextOrder ==
  \/ Elapse(1, 0, OrderTime)
  \/ \E vis \in Visibilities : CreateBegin(Creator, vis, OrderCreates)
  \/ \E c \in BagToSet(creates), ok \in Served : CreateExpire(c, ok)
  \/ \E c \in BagToSet(creates), id \in ListedIds : CreateFindId(c, id)
  \/ \E c \in BagToSet(creates) : CreateWrite(c)
  \/ \E c \in BagToSet(creates), ok \in Served : CreateIndex(c, ok)
  \/ \E c \in BagToSet(creates), ok \in Served : CreatePublish(c, ok)
  \/ \E limit \in RawLimits : ListRange(limit)
  \/ \E l \in BagToSet(lists) : ListGet(l)
  \/ \E l \in BagToSet(lists) : ListPrune(l)

SpecOrder == Init /\ [][NextOrder]_vars

\* SpecOptions: createPoll calls with the options of the request drawn
\* from RawOptionLists: every list of at most MaxRawOptions raw options
\* over RawOptions, the lists around the bound on the number of distinct
\* texts, and lists with texts around the bound on the length.
Text(chars) == [isString |-> TRUE, text |-> chars]

NotText == [isString |-> FALSE, text |-> <<>>]

RawOptions ==
  {NotText} \cup
  {Text(t) : t \in {<<>>, <<" ">>, <<"a">>, <<"A">>, <<"a", " ">>, <<" ", "A">>,
                    <<"b">>, <<"B">>, <<"a", "b">>, <<"a", " ", "b">>}}

RECURSIVE ListsOver(_, _)
ListsOver(S, n) ==
  IF n = 0 THEN {<<>>}
  ELSE ListsOver(S, n - 1) \cup
       {Append(l, x) : l \in {m \in ListsOver(S, n - 1) : Len(m) = n - 1}, x \in S}

Distinct == <<"a", "b", "c", "d", "e", "f", "g", "h", "i">>

Many(n) == [i \in 1..n |-> Text(<<Distinct[i]>>)]

Long(ch, n) == [i \in 1..n |-> ch]

RawOptionLists ==
  ListsOver(RawOptions, MaxRawOptions) \cup
  {Many(n) : n \in 7..9} \cup
  {Many(n) \o <<Text(<<"A">>), Text(<<" ", "B", " ">>)>> : n \in 7..9} \cup
  {<<Text(Long(x, n)), Text(<<"b">>)>> : x \in {"a", "A"}, n \in 119..121} \cup
  {<<Text(<<"b">>), Text(Long("a", n)), Text(Long("A", n))>> : n \in 119..121} \cup
  {<<Text(<<" ">> \o Long("a", n) \o <<" ">>), Text(<<"b">>)>> : n \in 119..121}

InitOptions ==
  /\ now = 0
  /\ env = ShortTtlSeconds
  /\ redis = EmptyRedis
  /\ \E rawOptions \in RawOptionLists :
       creates = SetToBag({[pc |-> "sanitize", rawOptions |-> rawOptions,
                            options |-> <<>>]})
  /\ votes = EmptyBag
  /\ lists = EmptyBag
  /\ views = EmptyBag
  /\ resp = NoResponse
  /\ client = "null"
  /\ subscription = NoSubscription
  /\ peersByPollId = <<>>
  /\ publicListPeers = {}
  /\ peers = [p \in Peers |-> NoPeer]

NextOptions == \E c \in BagToSet(creates) : CreateValidate(c)

SpecOptions == InitOptions /\ [][NextOptions]_vars

\* SpecInput: createPoll and submitVote are called with the inputs of
\* CreateInputs and VoteInputs, texts around each bound of the validation
\* included, while a peer of the public feed listens.
Titles ==
  {NotText, Text(<<>>), Text(<<" ", " ">>), Text(Long("a", 3)),
   Text(<<" ", " ">> \o Long("a", 3) \o <<" ">>), Text(Long("a", 4)),
   Text(Long("a", 180)), Text(Long("a", 181)),
   Text(<<" ">> \o Long("a", 180) \o <<" ">>)}

OptionInputs ==
  {<<>>, <<Text(<<"a">>)>>, <<Text(<<"a">>), Text(<<"A">>)>>,
   <<Text(<<"a">>), Text(<<"b">>)>>}

CreateInputs ==
  [title : Titles, options : {<<Text(<<"a">>), Text(<<"b">>)>>},
   visibility : {"public", "private", "other"}]
  \cup [title : {Text(Long("a", 4)), Text(<<>>)}, options : OptionInputs,
        visibility : {"public"}]

PollIdInputs ==
  {NotText, Text(<<>>), Text(<<" ">>), Text(pollIdText(1)),
   Text(<<" ">> \o pollIdText(1) \o <<" ">>), Text(<<"p", "9">>),
   Text(Long("x", 80)), Text(Long("x", 81)),
   Text(<<" ">> \o Long("x", 80) \o <<" ">>)}

OptionIdInputs ==
  {NotText, Text(<<" ">>), Text(optionIdText(1)),
   Text(<<" ">> \o optionIdText(1)), Text(<<"o", "9">>)}

VoteInputs ==
  [pollId : PollIdInputs, optionId : {Text(optionIdText(1))}]
  \cup [pollId : {Text(pollIdText(1)), Text(Long("x", 81))},
        optionId : OptionIdInputs]

NextInput ==
  \/ \E input \in CreateInputs : CreatePoll(Creator, input, MaxCreates)
  \/ CreateSteps(Served)
  \/ \E input \in VoteInputs : SubmitVote(Creator, input, MaxAttempts)
  \/ VoteSteps(Served)
  \/ PeerOpen(1, "public", 0)
  \/ \E ok \in Served : StartClient(ok)
  \/ \E ok \in Served : StartConnect(ok)
  \/ \E ok \in Served : StartPSubscribe(ok)
  \/ \E ok \in Served : StartSubscribe(ok)
  \/ AttachResume(1)

SpecInput == Init /\ [][NextInput]_vars

\* SpecTally: a poll on which other identities have already voted, a votes
\* for the first option and b for the second (a, b up to MaxTally), is
\* viewed and voted on (first option) by the Voters while a peer attaches
\* to it and the subscriber callbacks run.
OtherVoter(n) == getActor([ip |-> NumIps + n, agent |-> 1])

RECURSIVE Cast(_, _, _)
Cast(db, n, a) ==
  IF n = 0 THEN db
  ELSE VOTE_SCRIPT(Cast(db, n - 1, a), 0, keyPoll(1),
                   keyVoteByFingerprint(1, OtherVoter(n).fingerprintHash),
                   keyVoteByIp(1, OtherVoter(n).ipHash),
                   keyVoteRate(1, OtherVoter(n).ipHash),
                   IF n <= a THEN optionId(1) ELSE optionId(2),
                   VOTE_ATTEMPT_WINDOW_SECONDS, VOTE_ATTEMPT_MAX,
                   ShortTtlSeconds).db

InitTally ==
  /\ now = 0
  /\ env = ShortTtlSeconds
  /\ \E a \in 0..MaxTally, b \in 0..MaxTally :
       redis = Cast([EmptyRedis EXCEPT
                       !.polls = RedisSetEx(<<>>, keyPoll(1),
                                   newPoll(1, "private", 0, ShortTtlSeconds),
                                   ShortTtlSeconds, 0)],
                    a + b, a)
  /\ Idle

NextTally ==
  \/ \E a \in Voters : SubmitVoteRead(1, optionId(1), a, MaxAttempts)
  \/ \E v \in BagToSet(votes) : SubmitVoteEval(v)
  \/ \E v \in BagToSet(votes), ok \in Served : SubmitVotePublish(v, ok)
  \/ ViewRead(1, Creator)
  \/ \E w \in BagToSet(views) : ViewExists(w)
  \/ PeerOpen(1, "poll", 1)
  \/ \E ok \in Served : StartClient(ok)
  \/ \E ok \in Served : StartConnect(ok)
  \/ \E ok \in Served : StartPSubscribe(ok)
  \/ \E ok \in Served : StartSubscribe(ok)
  \/ AttachResume(1)
  \/ \E k \in DOMAIN subscription.subscribers : Deliver(k, {})

SpecTally == InitTally /\ [][NextTally]_vars

\* SpecPrivacy: callers at one address whose user agents and languages
\* differ (two of them join to the same fingerprint input) create a poll,
\* vote on it and view it while a peer attaches to it.
RawRequests ==
  [ip : {1},
   userAgent : {<<"u">>, <<"u", "|", "v">>},
   language : {<<"w">>, <<"v", "|", "w">>},
   clientHints : {<<"unknown">>},
   visitorId : {<<"t">>}]

NextPrivacy ==
  \/ \E raw \in RawRequests :
       CreateBegin(getActor(Request(raw)), "public", MaxCreates)
  \/ CreateSteps(Served)
  \/ \E raw \in RawRequests :
       SubmitVoteRead(1, optionId(1), getActor(Request(raw)), MaxAttempts)
  \/ VoteSteps(Served)
  \/ \E raw \in RawRequests : ViewRead(1, getActor(Request(raw)))
  \/ \E w \in BagToSet(views) : ViewExists(w)
  \/ PeerOpen(1, "poll", 1)
  \/ \E ok \in Served : StartClient(ok)
  \/ \E ok \in Served : StartConnect(ok)
  \/ \E ok \in Served : StartPSubscribe(ok)
  \/ \E ok \in Served : StartSubscribe(ok)
  \/ AttachResume(1)
  \/ \E k \in DOMAIN subscription.subscribers : Deliver(k, {})

SpecPrivacy == Init /\ [][NextPrivacy]_vars

\* SpecWindow: one identity votes again and again, up to BurstAttempts
\* attempts to the window, on a poll of the default lifetime that
\* createPoll has just written; the clock runs over the first ticks, then
\* to one tick before the end of the vote-attempt window, then past it.
WindowTicks == VOTE_ATTEMPT_WINDOW_SECONDS * TicksPerSecond

InitWindow ==
  /\ now = 0
  /\ env = 0
  /\ redis = [EmptyRedis EXCEPT
       !.polls = RedisSetEx(<<>>, keyPoll(1),
                   newPoll(1, "private", 0, DEFAULT_POLL_TTL_SECONDS),
                   DEFAULT_POLL_TTL_SECONDS, 0),
       !.createRate = RedisExpire(RedisIncr(<<>>, keyCreateRate(Creator.ipHash)),
                        keyCreateRate(Creator.ipHash),
                        CREATE_POLL_RATE_LIMIT_WINDOW_SECONDS, 0)]
  /\ Idle

NextWindow ==
  \/ Tick
  \/ Elapse(WindowTicks - 1, 0, WindowTicks - 1 + MaxTime)
  \/ Elapse(1, WindowTicks - 1, WindowTicks + MaxTime)
  \/ SubmitVoteRead(1, optionId(1), Creator, BurstAttempts)
  \/ \E v \in BagToSet(votes) : SubmitVoteEval(v)
  \/ \E v \in BagToSet(votes), ok \in Served : SubmitVotePublish(v, ok)

SpecWindow == InitWindow /\ [][NextWindow]_vars

----------------------------------------------------------------------------
\* Properties.

RECURSIVE SumVotes(_)
SumVotes(options) ==
  IF Len(options) = 0 THEN 0
  ELSE options[1].votes + SumVotes(Tail(options))

LivePolls == DOMAIN redis.polls
PollDoc(p) == redis.polls[keyPoll(p)].val
IpLocksOf(p) == {k \in DOMAIN redis.ipLocks : k[1] = p}
FpLocksOf(p) == {k \in DOMAIN redis.fpLocks : k[1] = p}

HoldsLock(p, actor) ==
  \/ keyVoteByIp(p, actor.ipHash) \in DOMAIN redis.ipLocks
  \/ keyVoteByFingerprint(p, actor.fingerprintHash) \in DOMAIN redis.fpLocks

AttemptsOf(db, p, actor) ==
  IF keyVoteRate(p, actor.ipHash) \in DOMAIN db.voteRate
    THEN db.voteRate[keyVoteRate(p, actor.ipHash)].val ELSE 0

\* The code of the script's reply in a step SubmitVoteEval(v): the code of
\* the error response, or "ok" when the call goes on to publish.
EvalCode == IF resp'.op = "vote" THEN resp'.code ELSE "ok"

C3_TotalIsSum ==
  /\ \A p \in LivePolls : PollDoc(p).totalVotes = SumVotes(PollDoc(p).options)
  /\ resp.poll.totalVotes = SumVotes(resp.poll.options)

\* Two identities have voted, one for each option.
C3_Witness ==
  \E p \in LivePolls :
    /\ PollDoc(p).totalVotes = 2
    /\ \A i \in 1..NumOptions : PollDoc(p).options[i].votes = 1

\* C4: for each live poll the number of origin locks, the number of
\* fingerprint locks and totalVotes are equal in every state.
C4_LocksMatchTotal ==
  \A p \in LivePolls :
    /\ Cardinality(IpLocksOf(p)) = PollDoc(p).totalVotes
    /\ Cardinality(FpLocksOf(p)) = PollDoc(p).totalVotes

\* C8: a vote lock present in the store has its poll document present.
C8_LockImpliesPoll ==
  /\ \A k \in DOMAIN redis.ipLocks : k[1] \in LivePolls
  /\ \A k \in DOMAIN redis.fpLocks : k[1] \in LivePolls

\* C9: a counted vote leaves the poll document with an expiry that is not
\* later than the expiresAt fixed at creation.
C9_VoteKeepsExpiry ==
  [][\A v \in BagToSet(votes) :
       (SubmitVoteEval(v) /\ EvalCode = "ok") =>
          redis'.polls[keyPoll(v.pollId)].exp
            <= redis'.polls[keyPoll(v.pollId)].val.expiresAt]_vars

C5_RateLimitAfterMax ==
  [][\A v \in BagToSet(votes) :
       (SubmitVoteEval(v) /\ v.pollId \in LivePolls) =>
          LET n == AttemptsOf(redis', v.pollId, v.actor)
              k == keyVoteRate(v.pollId, v.actor.ipHash)
          IN /\ n <= VOTE_ATTEMPT_MAX => resp'.code # "RATE_LIMITED"
             /\ n > VOTE_ATTEMPT_MAX =>
                  /\ resp'.code = "RATE_LIMITED"
                  /\ redis'.polls = redis.polls
                  /\ redis'.ipLocks = redis.ipLocks
                  /\ redis'.fpLocks = redis.fpLocks
             /\ redis'.voteRate[k].exp =
                  IF n = 1
                    THEN now + VOTE_ATTEMPT_WINDOW_SECONDS * TicksPerSecond
                    ELSE redis.voteRate[k].exp]_vars

\* The 21st attempt names a valid option and comes from an origin that
\* holds no lock.
C5_Witness ==
  /\ resp.op = "vote"
  /\ resp.code = "RATE_LIMITED"
  /\ resp.optionId \in ValidOptionIds
  /\ ~HoldsLock(resp.pollId, resp.actor)
  /\ AttemptsOf(redis, resp.pollId, resp.actor) = VOTE_ATTEMPT_MAX + 1

\* C6: the outcome of the transaction follows the precedence POLL_NOT_FOUND,
\* RATE_LIMITED, ALREADY_VOTED, OPTION_NOT_FOUND, success.
C6_Expected(v) ==
  IF v.pollId \notin LivePolls THEN "POLL_NOT_FOUND"
  ELSE IF AttemptsOf(redis, v.pollId, v.actor) + 1 > VOTE_ATTEMPT_MAX
    THEN "RATE_LIMITED"
  ELSE IF HoldsLock(v.pollId, v.actor) THEN "ALREADY_VOTED"
  ELSE IF \A i \in 1..Len(PollDoc(v.pollId).options) :
            PollDoc(v.pollId).options[i].id # v.optionId
    THEN "OPTION_NOT_FOUND"
  ELSE "ok"

C6_OutcomePrecedence ==
  [][\A v \in BagToSet(votes) :
       SubmitVoteEval(v) => EvalCode = C6_Expected(v)]_vars

\* An identity that has voted and is over the limit is answered RATE_LIMITED.
C6_Witness ==
  /\ resp.op = "vote"
  /\ resp.code = "RATE_LIMITED"
  /\ keyVoteByFingerprint(resp.pollId, resp.actor.fingerprintHash)
       \in DOMAIN redis.fpLocks

\* C7: an attempt evaluated on an existing poll adds exactly one to the
\* counter of (poll, origin), whatever its outcome, and no step other than
\* the counter's expiry lowers a counter.
C7_AttemptCounted ==
  [][/\ \A v \in BagToSet(votes) :
          (SubmitVoteEval(v) /\ v.pollId \in LivePolls) =>
             /\ EvalCode \in {"ok", "ALREADY_VOTED", "OPTION_NOT_FOUND",
                                "RATE_LIMITED"}
             /\ AttemptsOf(redis', v.pollId, v.actor)
                  = AttemptsOf(redis, v.pollId, v.actor) + 1
     /\ \A k \in DOMAIN redis.voteRate \cap DOMAIN redis'.voteRate :
          redis'.voteRate[k].val >= redis.voteRate[k].val]_vars

\* The third attempt of an origin, a duplicate answered ALREADY_VOTED, has
\* taken the counter to 3.
C7_Witness ==
  /\ resp.op = "vote"
  /\ resp.code = "ALREADY_VOTED"
  /\ AttemptsOf(redis, resp.pollId, resp.actor) = 3

\* C10: a listing keeps only documents that are public, its summaries are
\* those of the documents it kept, and an id enters the public index only
\* through the ZADD of a createPoll whose poll is public.
KeptPublic(kept, summaries) ==
  /\ Len(kept) = Len(summaries)
  /\ \A i \in 1..Len(kept) :
       /\ kept[i].visibility = "public"
       /\ summaries[i] = toPollSummary(kept[i])

C10_PrivateNeverListed ==
  /\ [](/\ \A l \in BagToSet(lists) : KeptPublic(l.kept, l.summaries)
        /\ KeptPublic(resp.kept, resp.summaries))
  /\ [][\A id \in PollIds :
          (id \notin DOMAIN redis.publicIndex /\ id \in DOMAIN redis'.publicIndex)
            => \E c \in BagToSet(creates) :
                 c.pc = "index" /\ c.pollId = id /\ c.visibility = "public"]_vars

\* A listing has read a private document behind an indexed id.
C10_Witness ==
  \E l \in BagToSet(lists) :
    \E i \in 1..Len(l.stale) :
      /\ l.stale[i] \in LivePolls
      /\ PollDoc(l.stale[i]).visibility = "private"

\* C11: a listing makes a summary only from a document it read as present
\* and public; each id it read is either collected as stale or summarised,
\* never both; an id whose document is absent (expired) or private when read
\* is collected; and when the call returns, every id it collected is out of
\* the public index.
ListedSoFar(ids, count, stale, kept) ==
  /\ Len(stale) + Len(kept) = count
  /\ \A i \in 1..count :
       (ids[i] \in Range(stale)) # (\E j \in 1..Len(kept) : kept[j].id = ids[i])
  /\ \A j \in 1..Len(kept) : kept[j] # NoPoll /\ kept[j].visibility = "public"

StaleWhenRead(pollId) ==
  \/ keyPoll(pollId) \notin DOMAIN redis.polls
  \/ redis.polls[keyPoll(pollId)].val.visibility = "private"

VoteUpdatesOf(p) ==
  SelectSeq(peers[p].inbox, LAMBDA m : m.message.type = "vote_update")

\* C12: a viewer attached to poll P when a vote update for P is published
\* receives that payload once, and a viewer whose attach never completed
\* receives nothing: no inbox holds a payload of another poll, or twice a
\* payload published while its viewer was attached, or anything at all
\* before the attach.
C12_DeliveredOnce ==
  \A p \in Peers :
    /\ peers[p].open # "done" => peers[p].inbox = <<>>
    /\ \A i \in 1..Len(VoteUpdatesOf(p)) :
         /\ VoteUpdatesOf(p)[i].message.pollId = peers[p].pollId
         /\ p \in VoteUpdatesOf(p)[i].attached =>
              \A j \in 1..Len(VoteUpdatesOf(p)) :
                VoteUpdatesOf(p)[i].message = VoteUpdatesOf(p)[j].message => i = j

\* C13: the vote updates of a poll reach a viewer in the order of the votes'
\* commits: among the updates published while the viewer was attached, the
\* totalVotes values the viewer receives never decrease.
C13_TotalsNeverDecrease ==
  \A p \in Peers :
    \A i, j \in 1..Len(VoteUpdatesOf(p)) :
      (/\ i < j
       /\ p \in VoteUpdatesOf(p)[i].attached
       /\ p \in VoteUpdatesOf(p)[j].attached)
        => VoteUpdatesOf(p)[i].message.totalVotes
             <= VoteUpdatesOf(p)[j].message.totalVotes

\* C14: when the document of a public poll has been written and the ZADD of
\* the public index fails, the creation is not answered with an error: the
\* call goes on to its announcement or returns the created poll.
C14_IndexFailureHidden ==
  [][\A c \in BagToSet(creates) :
       CreateIndex(c, FALSE) =>
         \/ resp'.op = "create" /\ resp'.code = "ok" /\ resp'.pollId = c.pollId
         \/ /\ resp' = NoResponse
            /\ \E c2 \in BagToSet(creates') :
                 c2.pollId = c.pollId /\ c2.pc = "publish"]_vars

\* C15: a publish that throws does not fail the operation and leaves the
\* store as a publish that succeeds does: after either outcome of its vote
\* update submitVote goes on (public poll) or returns the updated poll with
\* hasVoted, after either outcome of its list update it returns the updated
\* poll, and createPoll returns the created poll after either outcome of its
\* list update; none of these steps changes the store.
C15_PublishFailureHidden ==
  [][/\ \A v \in BagToSet(votes), ok \in BOOLEAN :
          SubmitVotePublish(v, ok) =>
            /\ redis' = redis
            /\ \/ /\ resp'.op = "vote" /\ resp'.code = "ok"
                  /\ resp'.poll = v.poll /\ resp'.hasVoted
                  /\ v.poll.visibility = "private"
               \/ /\ resp' = NoResponse
                  /\ v.poll.visibility = "public"
                  /\ \E v2 \in BagToSet(votes') :
                       /\ v2.pc = "publishList"
                       /\ v2.actor = v.actor /\ v2.poll = v.poll
     /\ \A v \in BagToSet(votes), ok \in BOOLEAN :
          SubmitVotePublishList(v, ok) =>
            /\ redis' = redis
            /\ resp'.op = "vote" /\ resp'.code = "ok"
            /\ resp'.poll = v.poll /\ resp'.hasVoted
     /\ \A c \in BagToSet(creates), ok \in BOOLEAN :
          CreatePublish(c, ok) =>
            /\ redis' = redis
            /\ resp'.op = "create" /\ resp'.code = "ok"
            /\ resp'.poll.id = c.pollId]_vars

\* submitVote returns the updated poll after both of its publishes threw.
C15_Witness ==
  /\ resp.op = "vote"
  /\ resp.code = "ok"
  /\ resp.hasVoted
  /\ resp.poll.totalVotes >= 1
  /\ resp.logged = 2

\* The start sequences that have not finished.
RunningStarts ==
  {k \in DOMAIN subscription.outcome : subscription.outcome[k] = "pending"}

Registered(p) ==
  \/ p \in publicListPeers
  \/ \E id \in DOMAIN peersByPollId : p \in peersByPollId[id]

\* C16: attach calls that race share one start sequence: at most one start
\* sequence runs at a time, a call that finds a promise cached starts none
\* and awaits the cached one, and once a start has succeeded the promise
\* stays resolved, no further sequence is started and exactly one subscriber
\* holds the subscriptions of a successful start.
C16_StartedOnce ==
  /\ [](/\ Cardinality(RunningStarts) <= 1
        /\ subscription.promise = "pending" <=> RunningStarts # {}
        /\ subscription.promise = "pending" <=> subscription.pc # "none"
        /\ RunningStarts \subseteq {subscription.attempt}
        /\ subscription.promise = "resolved" <=>
             \E k \in DOMAIN subscription.outcome : subscription.outcome[k] = "ok"
        /\ Cardinality({k \in DOMAIN subscription.subscribers :
                          subscription.subscribers[k].list}) <= 1)
  /\ [][/\ subscription.promise # "null" =>
             /\ subscription'.attempt = subscription.attempt
             /\ \A p \in Peers, id \in PollIds :
                  (PeerOpen(p, "poll", id) \/ PeerOpen(p, "public", 0)) =>
                     peers'[p].attempt = subscription.attempt
        /\ subscription.promise = "resolved" =>
             /\ subscription'.promise = "resolved"
             /\ subscription'.outcome = subscription.outcome]_vars

\* A per-poll attach and a public-feed attach await the one start sequence,
\* which has registered the pattern subscription.
C16_Witness ==
  /\ subscription.promise = "pending"
  /\ subscription.pc = "subscribe"
  /\ \A p \in Peers :
       peers[p].open = "waiting" /\ peers[p].attempt = subscription.attempt
  /\ \E p, q \in Peers : peers[p].mode = "poll" /\ peers[q].mode = "public"

\* C17: a start that fails is not cached: the promise is cleared, the calls
\* that awaited the attempt fail and register no peer, and a start sequence
\* whose commands the substrate serves (client, connect, pSubscribe,
\* subscribe) succeeds at each step.
C17_FailureNotCached ==
  [][/\ \A k \in RunningStarts :
          subscription'.outcome[k] = "failed" => subscription'.promise = "null"
     /\ \A p \in Peers :
          AttachCatch(p) =>
            /\ subscription.outcome[peers[p].attempt] = "failed"
            /\ ~Registered(p)'
            /\ peers'[p].open = "failed"
     /\ \A p \in Peers :
          (subscription.promise = "null" /\ peers[p].open = "none"
             /\ peers'[p].open = "waiting") =>
                subscription'.attempt = subscription.attempt + 1
     /\ StartClient(TRUE) => subscription'.pc = "connect"
     /\ StartConnect(TRUE) => subscription'.pc = "pSubscribe"
     /\ StartPSubscribe(TRUE) => subscription'.pc = "subscribe"
     /\ StartSubscribe(TRUE) => subscription'.promise = "resolved"]_vars

\* C18: a peer whose close hook has run is in no registry.
C18_DetachedStaysOut ==
  \A p \in Peers : peers[p].closed => ~Registered(p)

\* C19: getPollForViewer reports hasVoted exactly when the origin lock or
\* the fingerprint lock of the caller exists at its EXISTS; and for an
\* identity whose vote on the poll has been counted (its origin's attempt
\* counter is present; every first attempt names a valid option), a view of
\* the poll, while the poll is live, reports hasVoted.
C19_HasVotedAfterVote ==
  /\ [][\A w \in BagToSet(views) :
          ViewExists(w) =>
            /\ resp'.op = "view" /\ resp'.code = "ok"
            /\ resp'.hasVoted <=> HoldsLock(w.pollId, w.actor)]_vars
  /\ []((/\ resp.op = "view" /\ resp.code = "ok"
         /\ resp.pollId \in LivePolls
         /\ AttemptsOf(redis, resp.pollId, resp.actor) >= 1)
          => resp.hasVoted)

CreateAttemptsOf(db, actor) ==
  IF keyCreateRate(actor.ipHash) \in DOMAIN db.createRate
    THEN db.createRate[keyCreateRate(actor.ipHash)].val ELSE 0

\* C20: the createPoll call that takes the creation counter of its origin
\* to n is answered RATE_LIMITED exactly when n > 8; a call answered
\* RATE_LIMITED ends there, having written no document and no index entry,
\* and its increment stays: every call adds one to the counter and no step
\* lowers a counter that is present.
C20_CreateRateLimit ==
  [][/\ \A vis \in Visibilities :
          CreateBegin(Creator, vis, CreateBurst) =>
            LET n == CreateAttemptsOf(redis', Creator)
            IN /\ n = CreateAttemptsOf(redis, Creator) + 1
               /\ redis'.polls = redis.polls
               /\ redis'.publicIndex = redis.publicIndex
               /\ n > CREATE_POLL_RATE_LIMIT_MAX =>
                    /\ resp'.op = "create" /\ resp'.code = "RATE_LIMITED"
                    /\ creates' = creates
               /\ n <= CREATE_POLL_RATE_LIMIT_MAX =>
                    /\ resp' = NoResponse
                    /\ BagCardinality(creates') = BagCardinality(creates) + 1
     /\ \A k \in DOMAIN redis.createRate \cap DOMAIN redis'.createRate :
          redis'.createRate[k].val >= redis.createRate[k].val]_vars

\* The tenth call of the window is answered RATE_LIMITED while the poll of
\* an earlier call is live and listed.
C20_Witness ==
  /\ resp.op = "create"
  /\ resp.code = "RATE_LIMITED"
  /\ CreateAttemptsOf(redis, resp.actor) = CREATE_POLL_RATE_LIMIT_MAX + 2
  /\ LivePolls # {}
  /\ DOMAIN redis.publicIndex # {}

\* C21: createPoll never writes its new document over the document of a
\* poll that is still live: at the SET of a createPoll call no document
\* exists under the id the call has drawn.
C21_IdsUniqueAmongLive ==
  [][\A c \in BagToSet(creates) :
       CreateWrite(c) => keyPoll(c.pollId) \notin DOMAIN redis.polls]_vars

\* The trimmed, non-empty texts of a request's options, in input order.
TextsOf(rawOptions) ==
  LET at == {i \in 1..Len(rawOptions) :
               rawOptions[i].isString /\ Len(trim(rawOptions[i].text)) > 0}
      nth(n) == CHOOSE i \in at : Cardinality({j \in at : j <= i}) = n
  IN [n \in 1..Cardinality(at) |-> trim(rawOptions[nth(n)].text)]

\* The positions of the texts that no earlier text equals but for case.
FirstSeen(texts) ==
  {i \in 1..Len(texts) :
     \A j \in 1..(i - 1) : toLowerCase(texts[j]) # toLowerCase(texts[i])}

\* C22: createPoll keeps, of the trimmed non-empty option texts, the first
\* of each group of texts equal but for case, in input order, under the
\* ids o1..oN; it fails INVALID_OPTIONS when fewer than 2 or more than 8
\* texts are kept or a kept text is longer than 120 characters.
C22_OptionsDeduplicated ==
  [][\A c \in BagToSet(creates) :
       CreateValidate(c) =>
         LET texts == TextsOf(c.rawOptions)
             firsts == FirstSeen(texts)
             N == Cardinality(firsts)
             nth(n) == CHOOSE i \in firsts : Cardinality({j \in firsts : j <= i}) = n
             invalid == \/ N < 2
                        \/ N > 8
                        \/ \E i \in firsts : Len(texts[i]) > 120
         IN IF invalid
              THEN /\ resp'.op = "create"
                   /\ resp'.code = "INVALID_OPTIONS"
                   /\ creates' = EmptyBag
              ELSE /\ resp' = NoResponse
                   /\ \E d \in BagToSet(creates') :
                        /\ d.pc = "validated"
                        /\ d.rawOptions = c.rawOptions
                        /\ Len(d.options) = N
                        /\ \A n \in 1..N :
                             d.options[n] = [id |-> optionId(n),
                                             text |-> texts[nth(n)],
                                             votes |-> 0]]_vars

\* A call is validated whose options held a text twice but for case, the
\* upper-case one first and padded with blanks.
C22_Witness ==
  \E c \in BagToSet(creates) :
    /\ c.pc = "validated"
    /\ Len(c.rawOptions) = 3
    /\ Len(c.options) = 2
    /\ c.options[1].text = <<"A">>
    /\ c.rawOptions[1].text = <<" ", "A">>
    /\ c.rawOptions[2].text = <<"a">>

\* The messages published and not yet handled, and those the peers have
\* received.
Published ==
  {m.message : m \in UNION ({Range(subscription.subscribers[k].queue) :
                               k \in DOMAIN subscription.subscribers}
                            \cup {Range(peers[p].inbox) : p \in Peers})}

\* Whether 2 * (100 * votes / totalVotes) lies in [2 * pct - 1, 2 * pct + 1):
\* pct is 100 * votes / totalVotes rounded to the nearest integer, a half
\* rounded up.
Rounded(pct, optionVotes, totalVotes) ==
  /\ (2 * pct - 1) * totalVotes <= 200 * optionVotes
  /\ 200 * optionVotes < (2 * pct + 1) * totalVotes

PercentsOf(options, totalVotes) ==
  \A i \in 1..Len(options) :
    IF totalVotes = 0 THEN options[i].percent = 0
    ELSE Rounded(options[i].percent, options[i].votes, totalVotes)

\* C23: in every poll view of a reply and in every vote update, the percent
\* of each option is round(votes / totalVotes * 100) of the counts of the
\* same view, and 0 when totalVotes is 0; counts 3 and 1 give 75 and 25; no
\* stored document carries a percent.
C23_PercentOfTotal ==
  /\ resp.code = "ok" /\ resp.op \in {"view", "vote", "create"} =>
       /\ PercentsOf(resp.view.options, resp.view.totalVotes)
       /\ resp.view.totalVotes = resp.poll.totalVotes
       /\ \A i \in 1..Len(resp.poll.options) :
            resp.view.options[i].votes = resp.poll.options[i].votes
       /\ (/\ Len(resp.view.options) = 2
           /\ resp.view.options[1].votes = 3
           /\ resp.view.options[2].votes = 1
           /\ resp.view.totalVotes = 4) =>
            /\ resp.view.options[1].percent = 75
            /\ resp.view.options[2].percent = 25
  /\ \A m \in Published :
       m.type = "vote_update" => PercentsOf(m.options, m.totalVotes)
  /\ \A p \in LivePolls : \A i \in 1..Len(PollDoc(p).options) :
       "percent" \notin DOMAIN PollDoc(p).options[i]

\* A view with counts 2 and 1 (67 and 33 percent) is returned while a peer
\* has received a vote update.
C23_Witness ==
  /\ resp.op = "view" /\ resp.code = "ok"
  /\ resp.view.totalVotes = 3
  /\ resp.view.options[1].votes = 2
  /\ resp.view.options[1].percent = 67
  /\ \E p \in Peers : \E i \in 1..Len(peers[p].inbox) :
       /\ peers[p].inbox[i].message.type = "vote_update"
       /\ peers[p].inbox[i].message.totalVotes > 0

\* Whether document e differs from document d at most in the votes of its
\* options and in totalVotes.
SamePoll(d, e) ==
  /\ e.id = d.id
  /\ e.visibility = d.visibility
  /\ e.createdAt = d.createdAt
  /\ e.expiresAt = d.expiresAt
  /\ Len(e.options) = Len(d.options)
  /\ \A i \in 1..Len(d.options) : e.options[i].id = d.options[i].id

\* C24: while a poll is live its id, visibility, createdAt, expiresAt and
\* the number, ids and order of its options do not change; its counts
\* change only in a successful vote, which adds one to the votes of the
\* chosen option and one to totalVotes.
C24_OnlyVotesChange ==
  [][\A p \in LivePolls \cap DOMAIN redis'.polls :
       LET d == PollDoc(p)
           e == redis'.polls[keyPoll(p)].val
       IN /\ SamePoll(d, e)
          /\ \/ e = d
             \/ \E v \in BagToSet(votes) :
                  /\ SubmitVoteEval(v)
                  /\ EvalCode = "ok"
                  /\ v.pollId = p
                  /\ e.totalVotes = d.totalVotes + 1
                  /\ \A i \in 1..Len(d.options) :
                       e.options[i].votes =
                         d.options[i].votes +
                           (IF d.options[i].id = v.optionId THEN 1 ELSE 0)]_vars

\* Whether poll p is gone for a reader at this instant: its document is
\* absent, or the instant of its expiresAt has been reached.
GoneNow(p) ==
  \/ keyPoll(p) \notin DOMAIN redis.polls
  \/ PollDoc(p).expiresAt <= now

\* C25: submitVote and getPollForViewer on a poll whose document is absent
\* or expired both fail POLL_NOT_FOUND, and such a submitVote leaves the
\* store as it is and publishes nothing.
C25_GoneIsNotFound ==
  [][/\ \A p \in PollIds, o \in OptionIds, a \in Actors :
          (GoneNow(p) /\ SubmitVoteRead(p, o, a, BurstAttempts)) =>
            /\ resp'.op = "vote" /\ resp'.code = "POLL_NOT_FOUND"
            /\ UNCHANGED <<redis, votes, subscription>>
     /\ \A v \in BagToSet(votes) :
          (keyPoll(v.pollId) \notin DOMAIN redis.polls /\ SubmitVoteEval(v)) =>
            /\ resp'.op = "vote" /\ resp'.code = "POLL_NOT_FOUND"
            /\ UNCHANGED <<redis, subscription>>
     /\ \A p \in PollIds, a \in Actors :
          (GoneNow(p) /\ ViewRead(p, a)) =>
            /\ resp'.op = "view" /\ resp'.code = "POLL_NOT_FOUND"
            /\ UNCHANGED <<redis, views>>]_vars

\* Whether x is a digest (the output of hash), not a raw value.
IsDigest(x) == x[1] = "sha256"

PollFields == {"id", "visibility", "totalVotes", "createdAt", "expiresAt", "options"}

\* C26: what createPoll, submitVote and getPollForViewer write depends on
\* the request's identity through the origin hash and the fingerprint hash
\* only.  Every key names its caller by a digest, no value and no message
\* names a caller at all, and a step taken for one request is the step
\* taken for any request with the same two hashes.
C26_OnlyHashesWritten ==
  /\ [](/\ \A k \in DOMAIN redis.fpLocks : IsDigest(k[2])
        /\ \A k \in DOMAIN redis.ipLocks : IsDigest(k[2])
        /\ \A k \in DOMAIN redis.voteRate : IsDigest(k[2])
        /\ \A k \in DOMAIN redis.createRate : IsDigest(k)
        /\ \A k \in DOMAIN redis.fpLocks : redis.fpLocks[k].val \in OptionIds
        /\ \A k \in DOMAIN redis.ipLocks : redis.ipLocks[k].val \in OptionIds
        /\ \A k \in DOMAIN redis.voteRate : redis.voteRate[k].val \in Nat
        /\ \A k \in DOMAIN redis.createRate : redis.createRate[k].val \in Nat
        /\ \A p \in LivePolls : DOMAIN PollDoc(p) = PollFields
        /\ DOMAIN redis.publicIndex \subseteq PollIds
        /\ \A m \in Published :
             \/ /\ m.type = "vote_update"
                /\ DOMAIN m = {"type", "pollId", "totalVotes", "options"}
             \/ /\ m.type = "public_list_update"
                /\ DOMAIN m = {"type", "pollId", "reason"})
  /\ [][\A r1, r2 \in RawRequests :
          getActor(Request(r1)) = getActor(Request(r2)) =>
            /\ CreateBegin(getActor(Request(r1)), "public", MaxCreates)
                 => CreateBegin(getActor(Request(r2)), "public", MaxCreates)
            /\ SubmitVoteRead(1, optionId(1), getActor(Request(r1)), MaxAttempts)
                 => SubmitVoteRead(1, optionId(1), getActor(Request(r2)), MaxAttempts)
            /\ ViewRead(1, getActor(Request(r1)))
                 => ViewRead(1, getActor(Request(r2)))]_vars

\* Two requests that differ in user agent and language and have the same
\* two hashes exist, the vote of one of them is counted and published, and
\* the creation counter of their origin exists.
C26_Witness ==
  /\ \E r1, r2 \in RawRequests :
       /\ r1 # r2
       /\ getActor(Request(r1)) = getActor(Request(r2))
       /\ keyVoteByFingerprint(1, getActor(Request(r1)).fingerprintHash)
            \in DOMAIN redis.fpLocks
       /\ keyCreateRate(getActor(Request(r1)).ipHash) \in DOMAIN redis.createRate
  /\ \E m \in Published : m.type = "vote_update"

\* C27: the vote-attempt window is fixed.  The attempt that creates the
\* counter sets it to 1, arms its expiry 60 seconds ahead and is not rate
\* limited; a later attempt adds one and leaves the expiry as it is; the
\* counter is there until the instant of its expiry and gone from then on.
C27_FixedWindow ==
  [][/\ \A v \in BagToSet(votes) :
          (SubmitVoteEval(v) /\ keyPoll(v.pollId) \in DOMAIN redis.polls) =>
            LET k == keyVoteRate(v.pollId, v.actor.ipHash)
            IN /\ k \in DOMAIN redis'.voteRate
               /\ IF k \in DOMAIN redis.voteRate
                    THEN /\ redis'.voteRate[k].val = redis.voteRate[k].val + 1
                         /\ redis'.voteRate[k].exp = redis.voteRate[k].exp
                    ELSE /\ redis'.voteRate[k].val = 1
                         /\ redis'.voteRate[k].exp = now + WindowTicks
                         /\ EvalCode # "RATE_LIMITED"
     /\ \A k \in DOMAIN redis.voteRate :
          /\ k \in DOMAIN redis'.voteRate <=> now' < redis.voteRate[k].exp
          /\ k \in DOMAIN redis'.voteRate =>
               redis'.voteRate[k].exp = redis.voteRate[k].exp]_vars

\* After the window of its first attempts has ended, an attempt of the
\* identity, which voted in that window, is counted as the first of a new
\* window and answered ALREADY_VOTED.
C27_Witness ==
  /\ resp.op = "vote"
  /\ resp.code = "ALREADY_VOTED"
  /\ now >= WindowTicks
  /\ AttemptsOf(redis, resp.pollId, resp.actor) = 1
  /\ PollDoc(resp.pollId).totalVotes = 1

\* C28: every rate counter in the store has an expiry armed.  A creation
\* counter is without one only while the createPoll call that created it
\* is between its INCR and its EXPIRE; a vote-attempt counter never is.
C28_CountersExpire ==
  /\ \A k \in DOMAIN redis.voteRate : redis.voteRate[k].exp # NoExpiry
  /\ \A k \in DOMAIN redis.createRate :
       redis.createRate[k].exp = NoExpiry =>
         \E c \in BagToSet(creates) :
           c.pc = "expire" /\ keyCreateRate(c.actor.ipHash) = k

\* Whether key family n agrees with key family m on every key but k.
SameBut(m, n, k) ==
  /\ DOMAIN n \ {k} = DOMAIN m \ {k}
  /\ \A x \in DOMAIN m \ {k} : n[x] = m[x]

\* C29: the transaction of a vote attempt on poll P by (origin o,
\* fingerprint f) changes at most P's document, the locks (P,o) and (P,f)
\* and the counter (P,o).  When it answers RATE_LIMITED, ALREADY_VOTED or
\* OPTION_NOT_FOUND it changes the counter (P,o) only; after
\* OPTION_NOT_FOUND the identity holds no lock, so that a later attempt of
\* it can be counted.
C29_AttemptFrame ==
  [][\A v \in BagToSet(votes) :
       SubmitVoteEval(v) =>
         LET fpKey == keyVoteByFingerprint(v.pollId, v.actor.fingerprintHash)
             ipKey == keyVoteByIp(v.pollId, v.actor.ipHash)
             rateKey == keyVoteRate(v.pollId, v.actor.ipHash)
         IN /\ SameBut(redis.polls, redis'.polls, keyPoll(v.pollId))
            /\ SameBut(redis.fpLocks, redis'.fpLocks, fpKey)
            /\ SameBut(redis.ipLocks, redis'.ipLocks, ipKey)
            /\ SameBut(redis.voteRate, redis'.voteRate, rateKey)
            /\ redis'.createRate = redis.createRate
            /\ redis'.publicIndex = redis.publicIndex
            /\ EvalCode \in {"RATE_LIMITED", "ALREADY_VOTED", "OPTION_NOT_FOUND"} =>
                 /\ redis'.polls = redis.polls
                 /\ redis'.fpLocks = redis.fpLocks
                 /\ redis'.ipLocks = redis.ipLocks
            /\ EvalCode = "OPTION_NOT_FOUND" =>
                 /\ fpKey \notin DOMAIN redis'.fpLocks
                 /\ ipKey \notin DOMAIN redis'.ipLocks]_vars

\* A vote is counted, the only one on the poll, as the second attempt of
\* its origin in the window: the first attempt was answered
\* OPTION_NOT_FOUND.
C29_Witness ==
  /\ resp.op = "vote"
  /\ resp.code = "ok"
  /\ resp.poll.totalVotes = 1
  /\ resp.pollId \in LivePolls
  /\ PollDoc(resp.pollId).totalVotes = 1
  /\ AttemptsOf(redis, resp.pollId, resp.actor) = 2
  /\ votes = EmptyBag

\* Whether the step treats the locks of family m (n after the step) as
\* write-once: a lock that has not reached its expiry stays as it is, and
\* a new lock is the lock of the identity whose vote the step counts, with
\* the chosen option as its value.
WriteOnce(m, n, IsKeyOf(_, _)) ==
  /\ \A k \in DOMAIN m :
       now' < m[k].exp => k \in DOMAIN n /\ n[k] = m[k]
  /\ \A k \in DOMAIN n \ DOMAIN m :
       \E v \in BagToSet(votes) :
         /\ SubmitVoteEval(v)
         /\ EvalCode = "ok"
         /\ IsKeyOf(k, v)
         /\ n[k].val = v.optionId

\* C30: vote locks are write-once.  A lock appears only in the transaction
\* of a counted vote, as the lock of the voter, and from then on no step
\* changes its value or its expiry or removes it before its expiry.
C30_LocksWriteOnce ==
  [][/\ WriteOnce(redis.fpLocks, redis'.fpLocks,
                  LAMBDA k, v : k = keyVoteByFingerprint(v.pollId,
                                                         v.actor.fingerprintHash))
     /\ WriteOnce(redis.ipLocks, redis'.ipLocks,
                  LAMBDA k, v : k = keyVoteByIp(v.pollId, v.actor.ipHash))]_vars

\* The poll is viewed by an identity that has voted while the locks of two
\* identities, set at different instants, exist.
C30_Witness ==
  /\ resp.op = "view"
  /\ resp.code = "ok"
  /\ resp.hasVoted
  /\ \E k1, k2 \in DOMAIN redis.ipLocks :
       redis.ipLocks[k1].exp < redis.ipLocks[k2].exp


----------------------------------------------------------------------------
\* The entry a step has published to subscriber k: the queue has grown by
\* one entry at its end.
Grown(k) ==
  /\ k \in DOMAIN subscription.subscribers
  /\ Len(subscription'.subscribers[k].queue)
       = Len(subscription.subscribers[k].queue) + 1

Newest(k) ==
  subscription'.subscribers[k].queue[Len(subscription'.subscribers[k].queue)]

\* The step that publishes entry e is the publish of a vote whose script
\* has returned the poll, or of a creation or a vote of a public poll.
Announces(e) ==
  \/ /\ e.message.type = "vote_update"
     /\ \E v \in BagToSet(votes) :
          /\ v.pc = "publish"
          /\ SubmitVotePublish(v, TRUE)
          /\ e.channel = getChannelName(v.pollId)
          /\ e.message.pollId = v.pollId
          /\ e.message.totalVotes = v.poll.totalVotes
          /\ v.poll.totalVotes >= 1
          /\ \A i \in 1..Len(v.poll.options) :
               e.message.options[i].votes = v.poll.options[i].votes
  \/ /\ e.message.type = "public_list_update"
     /\ e.channel = PUBLIC_LIST_CHANNEL
     /\ \/ /\ e.message.reason = "poll_updated"
           /\ \E v \in BagToSet(votes) :
                /\ v.pc = "publishList"
                /\ SubmitVotePublishList(v, TRUE)
                /\ v.poll.visibility = "public"
                /\ e.message.pollId = v.pollId
        \/ /\ e.message.reason = "poll_created"
           /\ \E c \in BagToSet(creates) :
                /\ c.pc = "publish"
                /\ CreatePublish(c, TRUE)
                /\ c.visibility = "public"
                /\ e.message.pollId = c.pollId

\* C31: a vote_update reaches a poll's channel only in the publish of a
\* vote whose script has counted it, and carries the counts the script
\* returned; the EVAL step itself, failed or not, publishes nothing, and a
\* vote the script rejects never reaches a publish; a public-feed event is
\* published only by the creation of, or a counted vote on, a public poll.
C31_AnnouncedAfterCommit ==
  [][/\ \A k \in DOMAIN subscription'.subscribers :
          IF k \notin DOMAIN subscription.subscribers
            THEN subscription'.subscribers[k].queue = <<>>
          ELSE IF Grown(k) THEN Announces(Newest(k))
          ELSE Len(subscription'.subscribers[k].queue)
                 <= Len(subscription.subscribers[k].queue)
     /\ \A v \in BagToSet(votes) :
          SubmitVoteEval(v) =>
            /\ subscription' = subscription
            /\ EvalCode # "ok" => \A u \in BagToSet(votes') : u.pc = "eval"
                                     \/ u \in BagToSet(votes)
            /\ EvalCode = "ok" =>
                 /\ redis'.polls[keyPoll(v.pollId)].val.totalVotes
                      = redis.polls[keyPoll(v.pollId)].val.totalVotes + 1
                 /\ [v EXCEPT !.pc = "publish",
                              !.poll = redis'.polls[keyPoll(v.pollId)].val]
                      \in BagToSet(votes')]_vars

\* The subscriber has been sent the creation of a public poll, the update of
\* a vote counted on it, and the feed event of that vote.
C31_Witness ==
  \E k \in DOMAIN subscription.subscribers :
    LET queue == subscription.subscribers[k].queue
    IN \E i, j, l \in 1..Len(queue) :
         /\ queue[i].message.type = "public_list_update"
         /\ queue[i].message.reason = "poll_created"
         /\ queue[j].message.type = "vote_update"
         /\ queue[j].message.totalVotes = 1
         /\ queue[l].message.type = "public_list_update"
         /\ queue[l].message.reason = "poll_updated"


\* C32: in the broadcast of a message, the peers whose send throws leave
\* the registry and are not sent the message, and every other peer the
\* registry holds for the channel, its connection open, receives the
\* message as the last entry of its inbox; a peer that is in no registry
\* receives nothing, and a peer that has been taken out of the registries
\* is never put back.
C32_FailureIsolated ==
  [][/\ \A k \in DOMAIN subscription.subscribers, failing \in SUBSET Peers :
          Deliver(k, failing) =>
            LET message == Head(subscription.subscribers[k].queue)
            IN \A p \in peersOf(message.channel) :
                 IF p \in failing
                   THEN ~Registered(p)' /\ peers'[p].inbox = peers[p].inbox
                 ELSE /\ Registered(p)'
                      /\ ~peers[p].closed =>
                           peers'[p].inbox = Append(peers[p].inbox, message)
     /\ \A p \in Peers :
          ~Registered(p) =>
            /\ peers'[p].inbox = peers[p].inbox
            /\ peers[p].open = "done" => ~Registered(p)']_vars

\* A broadcast in which the send to one peer of a stream has failed: the
\* other peer of the stream holds the message, the first holds nothing and
\* is out of the registry.
C32_Witness ==
  \E p, q \in Peers :
    /\ p # q
    /\ peers[p].mode = peers[q].mode
    /\ peers[p].pollId = peers[q].pollId
    /\ peers[p].open = "done" /\ ~peers[p].closed /\ ~Registered(p)
    /\ peers[p].inbox = <<>>
    /\ Registered(q)
    /\ peers[q].inbox # <<>>


\* The subscribers whose connection holds a subscription: their callbacks
\* feed the registries.
LiveSubscriptions ==
  {k \in DOMAIN subscription.subscribers :
     subscription.subscribers[k].pattern \/ subscription.subscribers[k].list}

\* C33: at most one subscriber holds a subscription at any time, a start
\* that failed after its pattern subscription and was retried included,
\* and no inbox holds twice a message published while its peer was
\* attached.
C33_OneLiveSubscription ==
  /\ Cardinality(LiveSubscriptions) <= 1
  /\ \A p \in Peers :
       \A i, j \in 1..Len(peers[p].inbox) :
         (/\ p \in peers[p].inbox[i].attached
          /\ peers[p].inbox[i].message = peers[p].inbox[j].message) => i = j


\* C34: an id leaves the public index only when the document behind it is
\* absent (expired) or private at the removal: the entry of a live public
\* poll is never removed, a listing that read the document as absent before
\* a creation wrote and indexed a new public poll under the id included.
C34_LiveEntryKept ==
  [][\A id \in DOMAIN redis.publicIndex :
       id \notin DOMAIN redis'.publicIndex => StaleWhenRead(id)]_vars


\* min(100, max(1, floor(limit))), or 24 for a limit that is not finite.
AtMost(limit) ==
  IF limit.finite
    THEN Min2(100, Max2(1, CHOOSE n \in -1..101 :
                             2 * n <= limit.halves /\ limit.halves < 2 * n + 2))
    ELSE 24

MostRecentFirst(summaries) ==
  \A i, j \in 1..Len(summaries) :
    i < j => summaries[i].createdAt >= summaries[j].createdAt

\* C35: a listing reads the AtMost(limit) entries of the index with the
\* highest scores, from the highest down, and returns at most that many
\* summaries, in the order of the read and from the most recent creation
\* time to the oldest.
C35_LimitedAndOrdered ==
  /\ [](/\ \A l \in BagToSet(lists) :
             /\ Len(l.ids) <= AtMost(l.limit)
             /\ Len(l.summaries) <= Len(l.ids)
             /\ MostRecentFirst(l.summaries)
        /\ resp.op = "list" => MostRecentFirst(resp.summaries))
  /\ [][/\ \A limit \in RawLimits :
             ListRange(limit) =>
               LET all == RedisZRevAll(redis.publicIndex)
                   ids == SubSeq(all, 1, Min2(Len(all), AtMost(limit)))
               IN IF ids = <<>> THEN resp'.op = "list" /\ resp'.summaries = <<>>
                  ELSE \E l \in BagToSet(lists') : l.ids = ids /\ l.limit = limit
        /\ \A l \in BagToSet(lists) :
             ((ListGet(l) \/ ListPrune(l)) /\ resp'.op = "list") =>
                /\ Len(resp'.summaries) <= AtMost(l.limit)
                /\ \E f \in [1..Len(resp'.summaries) -> 1..Len(l.ids)] :
                     /\ \A i \in DOMAIN f : resp'.summaries[i].id = l.ids[f[i]]
                     /\ \A i, j \in DOMAIN f : i < j => f[i] < f[j]]_vars


\* The calls of createPoll in flight that are not c (one copy of c removed).
OtherCreates(c) == creates (-) SetToBag({c})

\* C36: a createPoll call draws at most 4 candidates: each draw is at most
\* its 4th; a candidate whose key is absent is returned at once (it is the
\* first, every earlier one was taken); a candidate that is taken is
\* followed by another draw while fewer than 4 were drawn; and when the 4th
\* is taken the call ends with ID_GENERATION_FAILED, the store as it was:
\* no document and no index entry is written.
C36_FourDraws ==
  /\ [](\A c \in BagToSet(creates) : c.tries < 4)
  /\ [][\A c \in BagToSet(creates), id \in PollIds :
          CreateFindId(c, id) =>
            /\ c.tries + 1 <= 4
            /\ redis' = redis
            /\ IF keyPoll(id) \notin DOMAIN redis.polls
                 THEN creates' = OtherCreates(c) (+)
                        SetToBag({[c EXCEPT !.pc = "write", !.pollId = id,
                                            !.createdAt = now]})
               ELSE IF c.tries + 1 < 4
                 THEN creates' = OtherCreates(c) (+)
                        SetToBag({[c EXCEPT !.tries = c.tries + 1]})
               ELSE /\ creates' = OtherCreates(c)
                    /\ resp'.op = "create"
                    /\ resp'.code = "ID_GENERATION_FAILED"]_vars

\* A creation has failed at its 4th candidate, every candidate taken by the
\* live poll, which stays as it was.
C36_Witness ==
  /\ resp.op = "create"
  /\ resp.code = "ID_GENERATION_FAILED"
  /\ keyPoll(1) \in LivePolls


\* C37: every message in the inbox of a peer of poll P was published on
\* P's channel and is a vote update of P; every message in the inbox of a
\* peer of the public feed was published on the feed channel and is a
\* public_list_update.
C37_GroupsIsolated ==
  \A p \in Peers :
    \A i \in 1..Len(peers[p].inbox) :
      LET e == peers[p].inbox[i]
      IN IF peers[p].mode = "public"
           THEN /\ e.channel = PUBLIC_LIST_CHANNEL
                /\ e.message.type = "public_list_update"
           ELSE /\ peers[p].mode = "poll"
                /\ e.channel = <<LIVE_CHANNEL_PREFIX, peers[p].pollId>>
                /\ e.message.type = "vote_update"
                /\ e.message.pollId = peers[p].pollId

\* A vote update of poll 1 and feed events have been broadcast while one
\* peer is attached to the stream of another poll and one to the public
\* feed: the first holds nothing, the second the feed events only.
C37_Witness ==
  \E p, q \in Peers :
    /\ peers[p].mode = "poll" /\ peers[p].pollId = 2
    /\ peers[p].open = "done" /\ Registered(p)
    /\ peers[p].inbox = <<>>
    /\ peers[q].mode = "public" /\ Registered(q)
    /\ Len(peers[q].inbox) = 2
    /\ \A k \in DOMAIN subscription.subscribers :
         subscription.subscribers[k].queue = <<>>
    /\ keyPoll(1) \in LivePolls
    /\ PollDoc(1).totalVotes = 1


\* C38: a view that reports hasVoted carries counts that include a vote:
\* its totalVotes is at least 1, a vote that commits between the view's GET
\* of the document and its EXISTS of the locks included.
C38_ViewIncludesVote ==
  (resp.op = "view" /\ resp.code = "ok" /\ resp.hasVoted)
    => /\ resp.view.totalVotes >= 1
       /\ resp.poll.totalVotes >= 1


\* The number of characters of a text between its first and its last
\* character that is not a space.
Untrimmed(text) ==
  LET inked == {i \in 1..Len(text) : text[i] # " "}
  IN IF inked = {} THEN 0
     ELSE (CHOOSE j \in inked : \A i \in inked : i <= j)
            - (CHOOSE j \in inked : \A i \in inked : j <= i) + 1

BadTitles ==
  {t \in Titles : ~t.isString \/ Untrimmed(t.text) < 4 \/ Untrimmed(t.text) > 180}

BadOptionInputs ==
  {o \in OptionInputs :
     Cardinality({toLowerCase(trim(o[i].text)) : i \in 1..Len(o)}) < 2}

Blank == {t \in PollIdInputs \cup OptionIdInputs :
            ~t.isString \/ Untrimmed(t.text) = 0}

TooLong == {t \in PollIdInputs : t.isString /\ Untrimmed(t.text) > 80}

Rejections ==
  {"INVALID_TITLE", "INVALID_OPTIONS", "INVALID_VOTE", "INVALID_POLL_ID"}

\* C39: a step that answers INVALID_TITLE, INVALID_OPTIONS, INVALID_VOTE or
\* INVALID_POLL_ID changes nothing but the answer: the store, its rate
\* counters included, the calls in flight and the subscribers' queues stay
\* as they were.  And the checks come first: a createPoll whose title is
\* rejected, or whose options are, and a submitVote whose poll id or option
\* id is blank, or whose poll id is longer than 80 characters, takes no
\* other step than that answer.
C39_ValidationFirst ==
  [][/\ resp'.code \in Rejections =>
          /\ redis' = redis
          /\ subscription' = subscription
          /\ creates' = creates /\ votes' = votes
          /\ client' = client
     /\ resp'.code \notin Rejections =>
          /\ \A input \in CreateInputs :
               (input.title \in BadTitles \/ input.options \in BadOptionInputs)
                 => ~CreatePoll(Creator, input, MaxCreates)
          /\ \A input \in VoteInputs :
               (input.pollId \in Blank \/ input.optionId \in Blank
                  \/ input.pollId \in TooLong)
                 => ~SubmitVote(Creator, input, MaxAttempts)
     /\ \A input \in CreateInputs :
          (resp'.code = "INVALID_OPTIONS" /\ CreatePoll(Creator, input, MaxCreates))
            => input.title \notin BadTitles
     /\ \A input \in VoteInputs :
          (resp'.code = "INVALID_POLL_ID" /\ SubmitVote(Creator, input, MaxAttempts))
            => input.pollId \notin Blank /\ input.optionId \notin Blank]_vars

\* A createPoll has been rejected for its title after the origin's counter
\* and a poll had been written and a subscriber had heard of the poll: all
\* of them are still there.
C39_Witness ==
  /\ resp.code = "INVALID_TITLE"
  /\ redis.createRate # <<>>
  /\ keyPoll(1) \in LivePolls
  /\ PollDoc(1).totalVotes = 1
  /\ \E k \in DOMAIN subscription.subscribers :
       Len(subscription.subscribers[k].queue) = 2


\* The peers the registry holds for a poll id: none when the id is no key.
AttachedTo(registry, id) == IF id \in DOMAIN registry THEN registry[id] ELSE {}

\* C40: the per-poll registry maps no poll id to an empty set: an id is a
\* key exactly when the registry holds a peer for it.  An attach adds the
\* peer to the set of its id and leaves the other ids alone, and a second
\* attach of the same peer changes nothing; a detach removes the peer and,
\* with the last peer of an id, the id; the detach of a peer that is not
\* attached, the close of a peer that was never registered included,
\* changes nothing.
C40_NoEmptyEntry ==
  /\ [](/\ \A id \in DOMAIN peersByPollId :
             peersByPollId[id] # {} /\ peersByPollId[id] \subseteq Peers
        /\ \A id \in StreamIds, p \in Peers :
             LET once == attachLivePeer(peersByPollId, id, p)
                 gone == detachLivePeer(peersByPollId, id, p)
             IN /\ AttachedTo(once, id) = AttachedTo(peersByPollId, id) \cup {p}
                /\ \A x \in StreamIds \ {id} :
                     AttachedTo(once, x) = AttachedTo(peersByPollId, x)
                /\ attachLivePeer(once, id, p) = once
                /\ AttachedTo(gone, id) = AttachedTo(peersByPollId, id) \ {p}
                /\ id \in DOMAIN gone <=> AttachedTo(peersByPollId, id) \ {p} # {}
                /\ p \notin AttachedTo(peersByPollId, id) => gone = peersByPollId
                /\ detachLivePeer(once, id, p) = gone)
  /\ [][/\ \A p \in Peers :
             (PeerClose(p) /\ ~Registered(p)) => peersByPollId' = peersByPollId
        /\ \A p \in Peers :
             (AttachResume(p) /\ peers[p].mode = "poll") =>
                peersByPollId' = attachLivePeer(peersByPollId, peers[p].pollId, p)
        /\ \A id \in DOMAIN peersByPollId :
             id \notin DOMAIN peersByPollId' =>
               \/ \E p \in peersByPollId[id] : PeerClose(p)
               \/ \E k \in DOMAIN subscription.subscribers :
                    Deliver(k, peersByPollId[id])]_vars

\* The last peer of poll 1 has detached and the id has left the registry,
\* which still holds the peer of another id.
C40_Witness ==
  \E p, q \in Peers :
    /\ DOMAIN peersByPollId = {2}
    /\ peersByPollId[2] = {p}
    /\ peers[q].mode = "poll" /\ peers[q].pollId = 1
    /\ peers[q].open = "done" /\ peers[q].closed
    /\ ~Registered(q)
====
